---- MODULE Spec2Model ----
(***************************************************************************)
(* A model of swiplserver/prologserver.py: the PrologServer handle, the    *)
(* PrologThread sessions that talk to the engine over a framed connection, *)
(* the decoding of replies (_return_prolog_response) and the framed        *)
(* receive loop (_receive).                                                *)
(*                                                                         *)
(* Spec      the handle, driven by one caller thread, and a session driven *)
(*           by another, one step per blocking point (connect, send,       *)
(*           receive); the engine and the transport are the environment.   *)
(* SpecRecv  the receive loop of _receive over a byte stream that the peer *)
(*           delivers in fragments and may close.                          *)
(***************************************************************************)
EXTENDS Integers, Sequences, FiniteSets, TLC

(***************************************************************************)
(* Bounds of the model.                                                    *)
(***************************************************************************)
\* engine-side thread pairs the engine hands out (successful credentials)
MaxConn == 2
\* processes the handle may spawn
MaxProc == 2
\* keepalive bytes the peer writes before a length header
MaxDots == 1
\* bytes of the longest body the peer frames (the shortest, ".\n", has 2)
MaxBody == 10
\* empty reads of a closed connection that are counted
MaxEofReads == 2
\* answers in the longest true(L) reply that is decoded
MaxAnswers == 3
\* answers of the longest goal the engine runs
MaxGoalAnswers == 2
\* query_async_result() calls recorded for one async query
MaxDrain == 4
\* characters of the longest identifier that is converted to Prolog text
MaxText == 3
\* arguments of the longest compound, items of the longest list that is converted
MaxArgs == 2
\* characters of the longest string that is sent
MaxSend == 4

\* Two PrologThread objects of the one handle, each with a caller thread of
\* its own: slot 1 is a session the application created, slot 0 is the one
\* PrologServer.stop() creates for its quit, run by the thread that calls the
\* handle's start() and stop().
Temp == 0
Sessions == {1}
\* another session of the same handle
Others == {2}
Slots == {Temp} \cup Sessions \cup Others

VARIABLES
  launch_server,            \* PrologServer._launch_server
  unix_domain_socket,       \* PrologServer._unix_domain_socket is not None
  sockFile,                 \* the file at that path: "absent", "present", or
                            \* "locked" when it is there and cannot be removed
  connection_failed,        \* PrologServer.connection_failed
  process,                  \* PrologServer._process: 0 is None, else a pid
  live,                     \* pids spawned and not yet reaped by wait()
  nproc,                    \* processes spawned so far
  engineUp,                 \* the engine at the handle's address is serving
  nconn,                    \* thread pairs the engine has handed out
  socket,                   \* PrologThread._socket: "None" or "socket"
  cstate,                   \* state of that socket object
  communication_thread_id,  \* PrologThread.communication_thread_id
  goal_thread_id,           \* PrologThread.goal_thread_id
  pc,                       \* position of the slot's caller thread
  op,                       \* the public operation the caller is inside
  flagRead,                 \* connection_failed as the running stop() read it
  reply,                    \* name of the last reply the operation received
  result,                   \* what the operation returns or raises
  first,                    \* first frame sent on the slot's connection
  creds,                    \* credentials sent on the slot's connection
  pend,                     \* frames sent minus replies consumed on it
  sent,                     \* frames the operation in progress has sent
  killRead,                 \* "kill is True or connection_failed" as the running
                            \* PrologServer.stop() evaluated it
  \* ---- variables of SpecRecv (the receive loop of _receive) ----
  stream,                   \* bytes the peer has written and recv has not returned
  peer,                     \* the peer's end: "open", "closed" or "reset"
  rpc,                      \* position inside _receive
  amount_expected,          \* -1 is None
  amount_received,
  sizeBytes,
  bytesReceived,
  eofReads,                 \* recv calls that returned b'' (end of stream)
  reads,                    \* recv calls that returned bytes
  framed,                   \* the body the peer is sending, <<>> when it sends
                            \* a header that holds no number
  unwritten,                \* bytes of its message the peer has not written
  \* ---- variables of SpecDecode (_return_prolog_response on one reply) ----
  decodeIn,                 \* jsonResult, the reply as json.loads gives it
  decodeOut,                \* what the call returned or raised
  errorJson,                \* _exception_json of the error it raised
  \* ---- variables of SpecQuote (json_to_prolog on one term) ----
  termIn,                   \* json_term: where the identifier stands, its text
  termOut,                  \* the string returned, or the error raised
  termBack,                 \* the term read from that string when it is
                            \* submitted to the engine as source text
  \* ---- variables of SpecSend (_send on one string) ----
  sendValue,                \* value: the code points of the string to send
  sentBytes,                \* the bytes the two sendall calls have written
  \* ---- variables of SpecAsync (the engine's side of async queries) ----
  engine,                   \* per connection: the goal thread and its results
  drained,                  \* per session: what each query_async_result()
                            \* gave since the last query was accepted
  returned,                 \* per session: the list the query() in progress
                            \* returns, while its caller holds it
  \* ---- variables of SpecPair (a session shared by two caller threads) ----
  stopper,                  \* the second caller thread of the session: where
                            \* it is inside stop(), and how stop() ended
  inbox,                    \* requests sent on the session's connection that
                            \* the engine has not read
  wire,                     \* replies the engine has written on it that no
                            \* recv has returned
  eof,                      \* the engine has closed its end of it
  syncGoal,                 \* the goal of a run request is executing
  lock                      \* a mutex of the engine is held by another session

sessVars == <<launch_server, unix_domain_socket, connection_failed, process, sockFile, live, nproc, engineUp,
              nconn, socket, cstate, communication_thread_id, goal_thread_id,
              pc, op, flagRead, reply, result, first, creds, pend, sent, killRead>>
recvVars == <<stream, peer, rpc, amount_expected, amount_received,
              sizeBytes, bytesReceived, eofReads, reads, framed, unwritten>>
decVars == <<decodeIn, decodeOut, errorJson, termIn, termOut, termBack, sendValue, sentBytes>>
engVars == <<engine, drained, returned>>
pairVars == <<stopper, inbox, wire, eof, syncGoal, lock>>
vars == <<sessVars, recvVars, decVars, engVars, pairVars>>

(***************************************************************************)
(* Terms of the Prolog json format.  Python's str, list and dict values    *)
(* are told apart by the tag.                                              *)
(***************************************************************************)
Atom(n) == [tag |-> "str", functor |-> n, args |-> <<>>]
List(items) == [tag |-> "list", functor |-> "", args |-> items]
Compound(f, a) == [tag |-> "dict", functor |-> f, args |-> a]

\* strings of the model whose first character is upper case or "_"
UpperInitial == {"Failed to accept password", "no port found in stdout", "X", "_"}

is_prolog_functor(t) == t.tag = "dict"
is_prolog_list(t) == t.tag = "list"
is_prolog_variable(t) == t.tag = "str" /\ t.functor \in UpperInitial
is_prolog_atom(t) == t.tag = "str" /\ ~is_prolog_variable(t)
\* the atom or variable text, or the functor name
prolog_name(t) == t.functor
prolog_args(t) == t.args

\* names of the engine's threads: the n-th accepted credential gets this pair
ThreadNames == <<"c1", "g1", "c2", "g2", "c3", "g3", "c4", "g4">>
CommName(n) == ThreadNames[2 * n - 1]
GoalName(n) == ThreadNames[2 * n]

\* replies of the engine
TrueReply(answers) == Compound("true", <<List(answers)>>)
FalseReply == Compound("false", <<>>)
ExceptionReply(inner) == Compound("exception", <<inner>>)
\* the acknowledgement of a credential: true([[threads(Comm, Goal)]])
Accepted(n) ==
  TrueReply(<<List(<<Compound("threads", <<Atom(CommName(n)), Atom(GoalName(n))>>)>>)>>)
Rejected == ExceptionReply(Atom("password_mismatch"))


(***************************************************************************)
(* json_to_prolog and quote_prolog_identifier.  A string is the sequence   *)
(* of its characters, each standing for its class: a lower case letter, an *)
(* upper case letter, a digit, the underscore, the single quote, or        *)
(* another character (the space).  A json term is a string, a number, a    *)
(* list of terms, or a dict with a functor and args.                       *)
(***************************************************************************)
Chars == {"a", "A", "1", "_", " ", "'"}
Texts == UNION {[1..n -> Chars] : n \in 0..MaxText}

\* json terms: a str, a number (its digits), a list, {"functor": .., "args": ..}
JStr(text) == [kind |-> "str", name |-> text, args |-> <<>>]
JNumber(digits) == [kind |-> "number", name |-> digits, args |-> <<>>]
JList(items) == [kind |-> "list", name |-> <<>>, args |-> items]
JFunctor(name, args) == [kind |-> "functor", name |-> name, args |-> args]

\* str.isupper, str.isalpha on one character; str.isalnum on a string
isupper(c) == c = "A"
isalpha(c) == c \in {"a", "A"}
isalnum(text) == text # <<>> /\ \A i \in 1..Len(text) : text[i] \in {"a", "A", "1"}

\* identifier.translate({ord('_'): ''}): the underscores removed
RemoveUnderscores(text) == SelectSeq(text, LAMBDA c : c # "_")

\* is_prolog_variable on a string that is not empty: json_term[0] is upper
\* case or the underscore
is_variable_text(text) == isupper(text[1]) \/ text[1] = "_"

\* the outcome of a conversion: the string, or the error raised
Converted(text) == [raise |-> FALSE, what |-> "str", text |-> text]
ConversionRaised(cls) == [raise |-> TRUE, what |-> cls, text |-> <<>>]

\* mustQuote, for an identifier that is an atom
MustQuote(identifier) ==
  \/ Len(identifier) = 0
  \/ ~isalpha(identifier[1])
  \/ ~isalnum(RemoveUnderscores(identifier))

\* quote_prolog_identifier on a string: is_prolog_atom indexes the first
\* character before the length is tested
quote_prolog_identifier(identifier) ==
  IF identifier = <<>> THEN ConversionRaised("IndexError")
  ELSE IF is_variable_text(identifier) THEN Converted(identifier)
  ELSE IF MustQuote(identifier) THEN Converted(<<"'">> \o identifier \o <<"'">>)
  ELSE Converted(identifier)

\* ", ".join(strings)
RECURSIVE Join(_)
Join(strings) ==
  IF strings = <<>> THEN <<>>
  ELSE IF Len(strings) = 1 THEN strings[1]
  ELSE strings[1] \o <<",", " ">> \o Join(Tail(strings))

\* json_to_prolog: the items are converted first, then the functor name is
\* quoted; a number is not an atom and is returned as str() gives it
RECURSIVE json_to_prolog(_)
json_to_prolog(json_term) ==
  LET items == [i \in 1..Len(json_term.args) |-> json_to_prolog(json_term.args[i])]
      failed == \E i \in 1..Len(items) : items[i].raise
      strings == [i \in 1..Len(items) |-> items[i].text]
  IN CASE json_term.kind = "functor" ->
            LET q == quote_prolog_identifier(json_term.name) IN
            IF failed \/ q.raise THEN ConversionRaised("IndexError")
            ELSE Converted(q.text \o <<"(">> \o Join(strings) \o <<")">>)
       [] json_term.kind = "list" ->
            IF failed THEN ConversionRaised("IndexError")
            ELSE Converted(<<"[">> \o Join(strings) \o <<"]">>)
       [] json_term.kind = "number" -> Converted(json_term.name)
       [] OTHER -> quote_prolog_identifier(json_term.name)

(***************************************************************************)
(* PrologError.__init__ and _return_prolog_response.                       *)
(***************************************************************************)
\* every error raised as the base class
PrologErrorMutBase(cls, exception_json) ==
  IF prolog_name(exception_json) = "exception" /\ Len(prolog_args(exception_json)) = 1
  THEN "PrologError"
  ELSE "AssertionError"

\* the characters of a name of the model, as far as they matter to the
\* conversion: a name is empty, begins as a variable does, or is an
\* identifier in lower case letters and underscores
Spell(name) ==
  IF name = "" THEN <<>> ELSE IF name \in UpperInitial THEN <<"A">> ELSE <<"a">>

\* a term of the replies as the json term json_to_prolog takes
RECURSIVE AsJson(_)
AsJson(t) ==
  LET args == [i \in 1..Len(t.args) |-> AsJson(t.args[i])] IN
  CASE t.tag = "dict" -> JFunctor(Spell(t.functor), args)
    [] t.tag = "list" -> JList(args)
    [] OTHER -> JStr(Spell(t.functor))

\* the class an error is raised as: the constructor asserts that its argument
\* is an exception(Inner) term, keeps Inner and gives self.prolog() to
\* Exception.__init__ as the message, so an error of json_to_prolog on Inner
\* is raised in place of the error that was being constructed
PrologError(cls, exception_json) ==
  IF prolog_name(exception_json) = "exception" /\ Len(prolog_args(exception_json)) = 1
  THEN LET message == json_to_prolog(AsJson(prolog_args(exception_json)[1])) IN
       IF message.raise THEN message.what ELSE cls
  ELSE "AssertionError"

\* the classes of the errors that PrologError.__init__ constructs
ErrorClasses ==
  {"PrologError", "PrologLaunchError", "PrologQueryTimeoutError",
   "PrologConnectionFailedError", "PrologNoQueryError",
   "PrologQueryCancelledError", "PrologResultNotAvailableError"}

\* self._exception_json of the error an outcome raised, when the outcome is
\* an error that was constructed from exception_json
NoError == [tag |-> "none", functor |-> "", args |-> <<>>]
ExceptionJson(out, exception_json) ==
  IF out.raise /\ out.what \in ErrorClasses
  THEN prolog_args(exception_json)[1]
  ELSE NoError

\* PrologError.json, PrologError.prolog and PrologError.is_prolog_exception on
\* an error that holds inner: prolog_name of a term that is neither a string
\* nor a dict indexes it with "functor", a TypeError
json(inner) == inner
prolog(inner) == json_to_prolog(AsJson(inner))
is_prolog_exception(inner, term_name) ==
  IF inner.tag \in {"str", "dict"}
  THEN [raise |-> FALSE, what |-> "bool", value |-> prolog_name(inner) = term_name]
  ELSE [raise |-> TRUE, what |-> "TypeError", value |-> FALSE]

\* every raise preceded by the assignment to connection_failed
RaisedMutAlwaysFlag(cls, flag) ==
  [raise |-> TRUE, what |-> cls, setFlag |-> TRUE, value |-> <<>>]

\* an outcome of _return_prolog_response: the class raised or the kind of
\* value returned, whether connection_failed was assigned, and for a returned
\* list its entries
Raised(cls, flag) == [raise |-> TRUE, what |-> cls, setFlag |-> flag, value |-> <<>>]
Returned(v) == [raise |-> FALSE, what |-> v, setFlag |-> FALSE, value |-> <<>>]
ReturnedList(answerList) ==
  [raise |-> FALSE, what |-> "list", setFlag |-> FALSE, value |-> answerList]

\* the dict built from one non-empty answer: a later binding of a name wins
AnswerDict(answer) ==
  LET keys == {prolog_args(answer[i])[1].functor : i \in 1..Len(answer)}
      lastOf(k) == CHOOSE i \in 1..Len(answer) :
                     /\ prolog_args(answer[i])[1].functor = k
                     /\ \A j \in 1..Len(answer) :
                          prolog_args(answer[j])[1].functor = k => j <= i
  IN [k \in keys |-> prolog_args(answer[lastOf(k)])[2]]

\* the answers taken in the reverse of their order
AnswerListMutReversed(jsonResult) ==
  LET answers == prolog_args(jsonResult)[1].args
      n == Len(answers)
  IN [i \in 1..n |->
        IF Len(answers[n + 1 - i].args) = 0
        THEN [isTrue |-> TRUE, dict |-> <<>>]
        ELSE [isTrue |-> FALSE, dict |-> AnswerDict(answers[n + 1 - i].args)]]

\* answerList: True for an empty binding list, a dict otherwise
AnswerList(jsonResult) ==
  LET answers == prolog_args(jsonResult)[1].args
  IN [i \in 1..Len(answers) |->
        IF Len(answers[i].args) = 0
        THEN [isTrue |-> TRUE, dict |-> <<>>]
        ELSE [isTrue |-> FALSE, dict |-> AnswerDict(answers[i].args)]]

\* a test of the inner term by its name, atom or functor
InnerIsMutByName(jsonResult, name) == prolog_name(jsonResult.args[1]) = name

\* jsonResult["args"][0] == name: the inner term is that string
InnerIs(jsonResult, name) == jsonResult.args[1] = Atom(name)

\* a test that never takes a list for the single True
IsSingleTrueMutNever(answerList) == FALSE

\* answerList == [True]
IsSingleTrue(answerList) == answerList = <<[isTrue |-> TRUE, dict |-> <<>>]>>

\* _return_prolog_response without the branch for result_not_available
ReturnPrologResponseMutNoNotAvailable(jsonResult) ==
  IF prolog_name(jsonResult) = "exception"
  THEN IF InnerIs(jsonResult, "no_more_results") THEN Returned("None")
       ELSE IF InnerIs(jsonResult, "connection_failed")
         THEN Raised(PrologError("PrologConnectionFailedError", jsonResult), TRUE)
       ELSE IF InnerIs(jsonResult, "time_limit_exceeded")
         THEN Raised(PrologError("PrologQueryTimeoutError", jsonResult), FALSE)
       ELSE IF InnerIs(jsonResult, "no_query")
         THEN Raised(PrologError("PrologNoQueryError", jsonResult), FALSE)
       ELSE IF InnerIs(jsonResult, "cancel_goal")
         THEN Raised(PrologError("PrologQueryCancelledError", jsonResult), FALSE)
       ELSE Raised(PrologError("PrologError", jsonResult), FALSE)
  ELSE IF prolog_name(jsonResult) = "false" THEN Returned("False")
       ELSE IF prolog_name(jsonResult) = "true"
         THEN IF IsSingleTrue(AnswerList(jsonResult))
              THEN Returned("True")
              ELSE ReturnedList(AnswerList(jsonResult))
       ELSE Returned("raw")

\* _return_prolog_response with the assignment to connection_failed left out
ReturnPrologResponseMutNoFlag(jsonResult) ==
  IF prolog_name(jsonResult) = "exception"
  THEN IF InnerIs(jsonResult, "no_more_results") THEN Returned("None")
       ELSE IF InnerIs(jsonResult, "connection_failed")
         THEN Raised(PrologError("PrologConnectionFailedError", jsonResult), FALSE)
       ELSE IF InnerIs(jsonResult, "time_limit_exceeded")
         THEN Raised(PrologError("PrologQueryTimeoutError", jsonResult), FALSE)
       ELSE IF InnerIs(jsonResult, "no_query")
         THEN Raised(PrologError("PrologNoQueryError", jsonResult), FALSE)
       ELSE IF InnerIs(jsonResult, "cancel_goal")
         THEN Raised(PrologError("PrologQueryCancelledError", jsonResult), FALSE)
       ELSE IF InnerIs(jsonResult, "result_not_available")
         THEN Raised(PrologError("PrologResultNotAvailableError", jsonResult), FALSE)
       ELSE Raised(PrologError("PrologError", jsonResult), FALSE)
  ELSE IF prolog_name(jsonResult) = "false" THEN Returned("False")
       ELSE IF prolog_name(jsonResult) = "true"
         THEN IF IsSingleTrue(AnswerList(jsonResult))
              THEN Returned("True")
              ELSE ReturnedList(AnswerList(jsonResult))
       ELSE Returned("raw")

\* what _return_prolog_response does with a decoded reply
ReturnPrologResponse(jsonResult) ==
  IF prolog_name(jsonResult) = "exception"
  THEN IF InnerIs(jsonResult, "no_more_results") THEN Returned("None")
       ELSE IF InnerIs(jsonResult, "connection_failed")
         THEN Raised(PrologError("PrologConnectionFailedError", jsonResult), TRUE)
       ELSE IF InnerIs(jsonResult, "time_limit_exceeded")
         THEN Raised(PrologError("PrologQueryTimeoutError", jsonResult), FALSE)
       ELSE IF InnerIs(jsonResult, "no_query")
         THEN Raised(PrologError("PrologNoQueryError", jsonResult), FALSE)
       ELSE IF InnerIs(jsonResult, "cancel_goal")
         THEN Raised(PrologError("PrologQueryCancelledError", jsonResult), FALSE)
       ELSE IF InnerIs(jsonResult, "result_not_available")
         THEN Raised(PrologError("PrologResultNotAvailableError", jsonResult), FALSE)
       ELSE Raised(PrologError("PrologError", jsonResult), FALSE)
  ELSE IF prolog_name(jsonResult) = "false" THEN Returned("False")
       ELSE IF prolog_name(jsonResult) = "true"
         THEN IF IsSingleTrue(AnswerList(jsonResult))
              THEN Returned("True")
              ELSE ReturnedList(AnswerList(jsonResult))
       ELSE Returned("raw")

\* the name a reply is remembered by: the inner name of an exception reply
ReplyName(jsonResult) ==
  IF prolog_name(jsonResult) = "exception"
  THEN prolog_name(jsonResult.args[1])
  ELSE prolog_name(jsonResult)

\* replies the engine gives to each request, as the docstrings of the
\* operations list them
RepliesTo(frame) ==
  CASE frame = "run" ->
         { TrueReply(<<List(<<>>)>>), FalseReply,
           ExceptionReply(Atom("time_limit_exceeded")),
           ExceptionReply(Atom("connection_failed")) }
    [] frame = "run_async" ->
         { TrueReply(<<List(<<>>)>>), ExceptionReply(Atom("connection_failed")) }
    [] frame = "cancel_async" ->
         { TrueReply(<<List(<<>>)>>), ExceptionReply(Atom("no_query")),
           ExceptionReply(Atom("connection_failed")) }
    [] frame = "async_result" ->
         { TrueReply(<<List(<<>>)>>), FalseReply,
           ExceptionReply(Atom("no_more_results")),
           ExceptionReply(Atom("no_query")),
           ExceptionReply(Atom("connection_failed")) }
    [] OTHER ->                                  \* close, quit
         { TrueReply(<<List(<<>>)>>), ExceptionReply(Atom("connection_failed")) }



(***************************************************************************)
(* The state after construction: PrologServer.__init__ and                 *)
(* PrologThread.__init__.                                                  *)
(***************************************************************************)
InitRecvIdle ==
  /\ stream = <<>> /\ peer = "open" /\ rpc = "off"
  /\ amount_expected = -1 /\ amount_received = 0
  /\ sizeBytes = <<>> /\ bytesReceived = <<>> /\ eofReads = 0
  /\ reads = 0 /\ framed = <<>> /\ unwritten = 0

\* no reply is being decoded on its own
Pending == [raise |-> FALSE, what |-> "pending", setFlag |-> FALSE, value |-> <<>>]

\* no term is being converted
NoTerm == [kind |-> "str", name |-> <<"a">>, args |-> <<>>]
NotRead == [kind |-> "pending", name |-> <<>>, args |-> <<>>]
NotConverted == [raise |-> FALSE, what |-> "pending", text |-> <<>>]

InitDecodeIdle ==
  /\ decodeIn = FalseReply /\ decodeOut = Pending /\ errorJson = NoError
  /\ termIn = NoTerm /\ termOut = NotConverted /\ termBack = NotRead
  /\ sendValue = <<>> /\ sentBytes = <<>>

\* a connection's goal thread with no query: nothing runs, nothing to retrieve
NoQuery ==
  [running |-> FALSE, findAll |-> FALSE, total |-> 0, made |-> 0,
   ending |-> "none", ended |-> "none", cancelled |-> FALSE, queue |-> <<>>,
   tag |-> 0, replaced |-> FALSE]

\* the second caller thread before it calls stop()
NoStopper == [pc |-> "idle", result |-> "none"]

InitEngineIdle ==
  /\ engine = [s \in Slots |-> NoQuery]
  /\ drained = [s \in Slots |-> <<>>]
  /\ returned = [s \in Slots |-> <<>>]
  /\ stopper = NoStopper
  /\ inbox = <<>> /\ wire = <<>> /\ eof = FALSE
  /\ syncGoal = FALSE /\ lock = FALSE

\* the handle after __init__; uds says whether a unix_domain_socket was asked for
InitHandle(uds) ==
  /\ launch_server \in BOOLEAN
  /\ unix_domain_socket = uds
  /\ sockFile = "absent"
  /\ connection_failed = FALSE
  /\ process = 0 /\ live = {} /\ nproc = 0
  \* with launch_server false the engine is a separate process that may be there
  /\ engineUp \in (IF launch_server THEN {FALSE} ELSE BOOLEAN)
  /\ nconn = 0
  /\ socket = [s \in Slots |-> "None"]
  /\ cstate = [s \in Slots |-> "none"]
  /\ communication_thread_id = [s \in Slots |-> "None"]
  /\ goal_thread_id = [s \in Slots |-> "None"]
  /\ pc = [s \in Slots |-> "idle"]
  /\ op = [s \in Slots |-> "none"]
  /\ flagRead = [s \in Slots |-> FALSE]
  /\ reply = [s \in Slots |-> "none"]
  /\ result = [s \in Slots |-> "none"]
  /\ first = [s \in Slots |-> "none"]
  /\ creds = [s \in Slots |-> 0]
  /\ pend = [s \in Slots |-> 0]
  /\ sent = [s \in Slots |-> <<>>]
  /\ killRead = FALSE

\* the default handle serves over TCP (unix_domain_socket is None)
InitSess == InitHandle(FALSE)

Init == InitSess /\ InitRecvIdle /\ InitDecodeIdle /\ InitEngineIdle

\* a handle constructed with unix_domain_socket given
InitFile == InitHandle(TRUE) /\ InitRecvIdle /\ InitDecodeIdle /\ InitEngineIdle

handleVars == <<launch_server, unix_domain_socket, connection_failed, process, sockFile, live, nproc, engineUp>>
idVars == <<communication_thread_id, goal_thread_id>>
wireVars == <<first, creds, pend, sent>>

(***************************************************************************)
(* How an operation begins and ends.                                       *)
(***************************************************************************)
\* the caller of slot s enters operation o
Call(s, o) ==
  /\ pc[s] = "idle"
  /\ op' = [op EXCEPT ![s] = o]

\* the operation returns v or raises v: the caller has it at "done"
Finish(s, v) ==
  /\ pc' = [pc EXCEPT ![s] = "done"]
  /\ result' = [result EXCEPT ![s] = v]

\* the caller takes the outcome and is between operations again
Return(s) ==
  /\ pc[s] = "done"
  /\ pc' = [pc EXCEPT ![s] = "idle"]
  /\ op' = [op EXCEPT ![s] = "none"]
  /\ result' = [result EXCEPT ![s] = "none"]
  /\ reply' = [reply EXCEPT ![s] = "none"]
  /\ sent' = [sent EXCEPT ![s] = <<>>]
  /\ flagRead' = [flagRead EXCEPT ![s] = FALSE]
  /\ killRead' = (IF s = Temp THEN FALSE ELSE killRead)
  /\ returned' = [returned EXCEPT ![s] = <<>>]
  /\ UNCHANGED <<handleVars, nconn, socket, cstate, idVars, first, creds, pend, recvVars,
                 decVars, pairVars, engine, drained>>

\* an error raised inside the body of PrologServer.stop()'s with statement
\* runs __exit__, that is stop(), before it reaches the caller
FailBody(s, v) ==
  IF op[s] = "server_stop"
  THEN /\ pc' = [pc EXCEPT ![s] = "exit"]
       /\ result' = [result EXCEPT ![s] = v]
  ELSE Finish(s, v)

\* a frame goes out on the slot's connection
Sent(s, frame) ==
  /\ first' = [first EXCEPT ![s] = IF first[s] = "none" THEN frame ELSE first[s]]
  /\ creds' = [creds EXCEPT ![s] = IF frame = "credential" THEN creds[s] + 1 ELSE creds[s]]
  /\ pend' = [pend EXCEPT ![s] = pend[s] + 1]
  /\ sent' = [sent EXCEPT ![s] = Append(sent[s], frame)]

\* a receive that takes no reply frame off the connection
ConsumedMutNone(s) ==
  /\ UNCHANGED <<first, creds, pend, sent>>

\* one reply frame is taken off the slot's connection
Consumed(s) ==
  /\ pend' = [pend EXCEPT ![s] = pend[s] - 1]
  /\ UNCHANGED <<first, creds, sent>>

(***************************************************************************)
(* PrologServer.start()                                                    *)
(***************************************************************************)
\* the file the engine binds when it is given the unix_domain_socket option:
\* whether this process may remove it depends on the directory it is in
SocketFileOf(uds, file) == IF uds THEN {"present", "locked"} ELSE {file}

\* the effect of PrologServer.start() with the given outcome of the launch
\* (server_traces is unset)
ServerStartEffect(outcome) ==
  IF ~launch_server
  THEN outcome = "None" /\ UNCHANGED <<process, sockFile, live, nproc, engineUp>>
  ELSE \/ /\ outcome = "None"                 \* launched, port and password read
          /\ nproc < MaxProc
          /\ nproc' = nproc + 1
          /\ process' = nproc + 1
          /\ live' = live \cup {nproc + 1}
          /\ engineUp' = TRUE
          /\ sockFile' \in SocketFileOf(unix_domain_socket, sockFile)
       \/ /\ outcome = "AssertionError"       \* PrologLaunchError("no port found ...")
          /\ nproc < MaxProc
          /\ nproc' = nproc + 1
          /\ process' = nproc + 1
          /\ live' = live \cup {nproc + 1}
          /\ UNCHANGED <<engineUp, sockFile>>
       \/ /\ outcome = "OSError"              \* Popen fails: swipl is not on the path
          /\ UNCHANGED <<process, sockFile, live, nproc, engineUp>>

ServerStartOutcomes == {"None", "AssertionError", "OSError"}

\* PrologServer.start() called by the handle's caller
ServerStart ==
  /\ Call(Temp, "server_start")
  /\ \E outcome \in ServerStartOutcomes :
       /\ ServerStartEffect(outcome)
       /\ Finish(Temp, outcome)
  /\ UNCHANGED <<launch_server, unix_domain_socket, connection_failed, nconn, socket, cstate, idVars,
                 flagRead, reply, wireVars, killRead, recvVars, decVars, pairVars, engVars>>

(***************************************************************************)
(* PrologThread.start()                                                    *)
(***************************************************************************)
\* the frame start() sends first on its new connection
StartFrameMutRun == "run"

StartFrame == "credential"

\* start() with _socket None, up to the creation of the socket object:
\* the handle is started if it owns no process, then the socket is created
StartBody(s) ==
  \E outcome \in (IF process = 0 THEN ServerStartOutcomes ELSE {"skip"}) :
    /\ IF process = 0
       THEN ServerStartEffect(outcome)
       ELSE UNCHANGED <<process, sockFile, live, nproc, engineUp>>
    /\ IF outcome \in {"None", "skip"}
       THEN /\ socket' = [socket EXCEPT ![s] = "socket"]
            /\ cstate' = [cstate EXCEPT ![s] = "created"]
            /\ first' = [first EXCEPT ![s] = "none"]
            /\ creds' = [creds EXCEPT ![s] = 0]
            /\ pend' = [pend EXCEPT ![s] = 0]
            /\ pc' = [pc EXCEPT ![s] = "connect"]
            /\ UNCHANGED result
       ELSE /\ Finish(s, outcome)
            /\ UNCHANGED <<socket, cstate, first, creds, pend>>

\* the test start() returns on: self._socket is not None
AlreadyStartedMutNever(sock) == FALSE

AlreadyStarted(sock) == sock # "None"

\* the caller calls start(): nothing to do when _socket is set
Start(s) ==
  /\ Call(s, "start")
  /\ IF AlreadyStarted(socket[s])
     THEN /\ Finish(s, "None")
          /\ UNCHANGED <<process, sockFile, live, nproc, engineUp, socket, cstate, first, creds, pend>>
     ELSE StartBody(s)
  /\ UNCHANGED <<launch_server, unix_domain_socket, connection_failed, nconn, idVars, flagRead, reply,
                 sent, killRead, recvVars, decVars, pairVars, engVars>>

\* self._socket.connect(prologAddress)
Connect(s) ==
  /\ pc[s] = "connect"
  /\ \/ /\ engineUp
        /\ cstate' = [cstate EXCEPT ![s] = "open"]
        /\ pc' = [pc EXCEPT ![s] = "send_pw"]
        /\ UNCHANGED result
     \/ /\ Finish(s, "OSError")               \* refused: _socket stays set
        /\ UNCHANGED cstate
  /\ UNCHANGED <<handleVars, nconn, socket, idVars, op, flagRead, reply, wireVars,
                 killRead, recvVars, decVars, pairVars, engVars>>

\* self._send(password)
SendPassword(s) ==
  /\ pc[s] = "send_pw"
  /\ \/ /\ cstate[s] = "open"
        /\ Sent(s, StartFrame)
        /\ pc' = [pc EXCEPT ![s] = "recv_pw"]
        /\ UNCHANGED <<cstate, result>>
     \/ /\ cstate' = [cstate EXCEPT ![s] = "broken"]
        /\ Finish(s, "OSError")
        /\ UNCHANGED wireVars
  /\ UNCHANGED <<handleVars, nconn, socket, idVars, op, flagRead, reply, killRead, recvVars, decVars, pairVars, engVars>>

\* result = self._receive() and the decoding of the acknowledgement
ReceivePassword(s) ==
  /\ pc[s] = "recv_pw"
  /\ \/ /\ cstate[s] = "open" /\ engineUp /\ nconn < MaxConn
        /\ LET jsonResult == Accepted(nconn + 1)
               threadTerm == prolog_args(jsonResult)[1].args[1].args[1]
           IN /\ prolog_name(jsonResult) = "true"
              /\ communication_thread_id' =
                   [communication_thread_id EXCEPT ![s] = prolog_args(threadTerm)[1].functor]
              /\ goal_thread_id' =
                   [goal_thread_id EXCEPT ![s] = prolog_args(threadTerm)[2].functor]
              /\ reply' = [reply EXCEPT ![s] = ReplyName(jsonResult)]
        /\ nconn' = nconn + 1
        /\ Consumed(s)
        /\ IF op[s] = "start"
           THEN Finish(s, "None")
           ELSE pc' = [pc EXCEPT ![s] = "send"] /\ UNCHANGED result
        /\ UNCHANGED cstate
     \/ /\ cstate[s] = "open" /\ engineUp /\ ~launch_server
        /\ prolog_name(Rejected) # "true"
        /\ reply' = [reply EXCEPT ![s] = ReplyName(Rejected)]
        /\ Consumed(s)
        /\ Finish(s, PrologError("PrologLaunchError", Atom("Failed to accept password")))
        /\ UNCHANGED <<nconn, idVars, cstate>>
     \/ /\ cstate' = [cstate EXCEPT ![s] = "broken"]   \* recv raises: connection reset
        /\ Finish(s, "OSError")
        /\ UNCHANGED <<nconn, idVars, reply, wireVars>>
  /\ UNCHANGED <<handleVars, socket, op, flagRead, killRead, recvVars, decVars, pairVars, engVars>>


(***************************************************************************)
(* query, query_async, cancel_query_async, query_async_result, halt_server *)
(***************************************************************************)
\* query_async() sending the request of query_async_result()
FrameOfMutPollForAsync(o) ==
  CASE o = "query" -> "run"
    [] o = "query_async" -> "async_result"
    [] o = "cancel_query_async" -> "cancel_async"
    [] o = "query_async_result" -> "async_result"
    [] o = "halt_server" -> "quit"
    [] o = "server_stop" -> "quit"
    [] OTHER -> "none"

\* the request each operation sends
FrameOf(o) ==
  CASE o = "query" -> "run"
    [] o = "query_async" -> "run_async"
    [] o = "cancel_query_async" -> "cancel_async"
    [] o = "query_async_result" -> "async_result"
    [] o = "halt_server" -> "quit"
    [] o = "server_stop" -> "quit"
    [] OTHER -> "none"

\* only query() returns what it decoded
ReturningOpsMutAll == {"query", "query_async", "query_async_result"}

ReturningOpsMutQueryOnly == {"query"}

\* operations that return the decoded reply; the others discard it
ReturningOps == {"query", "query_async_result"}
\* operations that are halt_server, called directly or by PrologServer.stop()
\* no operation assigns connection_failed after its reply
HaltingOpsMutNone == {}

HaltingOps == {"halt_server", "server_stop"}

\* the test query() and query_async() call start() on: self._socket is None
NotStartedMutNever(sock) == FALSE

NotStarted(sock) == sock = "None"

\* the caller calls query() or query_async(): start() first when _socket is None
QueryCall(s, o) ==
  /\ Call(s, o)
  /\ IF ~NotStarted(socket[s])
     THEN /\ pc' = [pc EXCEPT ![s] = "send"]
          /\ UNCHANGED <<process, sockFile, live, nproc, engineUp, socket, cstate, first, creds,
                         pend, result>>
     ELSE StartBody(s)
  /\ UNCHANGED <<launch_server, unix_domain_socket, connection_failed, nconn, idVars, flagRead, reply,
                 sent, killRead, recvVars, decVars, pairVars, engVars>>

Query(s) == QueryCall(s, "query")
QueryAsync(s) == QueryCall(s, "query_async")

\* the caller calls an operation that sends at once: with _socket None the
\* send fails on the missing socket object
DirectCall(s, o) ==
  /\ Call(s, o)
  /\ IF socket[s] # "None"
     THEN pc' = [pc EXCEPT ![s] = "send"] /\ UNCHANGED result
     ELSE Finish(s, "AttributeError")
  /\ UNCHANGED <<handleVars, nconn, socket, cstate, idVars, flagRead, reply, wireVars,
                 killRead, recvVars, decVars, pairVars, engVars>>

CancelQueryAsync(s) == DirectCall(s, "cancel_query_async")
QueryAsyncResult(s) == DirectCall(s, "query_async_result")
HaltServer(s) == DirectCall(s, "halt_server")

\* self._send(request)
SendWith(s) ==
  /\ pc[s] = "send"
  /\ \/ /\ cstate[s] = "open"
        /\ Sent(s, FrameOf(op[s]))
        /\ pc' = [pc EXCEPT ![s] = "recv"]
        /\ UNCHANGED <<cstate, result>>
     \/ /\ cstate' = [cstate EXCEPT ![s] = IF cstate[s] = "open" THEN "broken" ELSE cstate[s]]
        /\ FailBody(s, "OSError")
        /\ UNCHANGED wireVars
  /\ UNCHANGED <<handleVars, nconn, socket, idVars, op, flagRead, reply, killRead, recvVars, decVars, engVars>>

Send(s) ==
  /\ SendWith(s)
  /\ UNCHANGED pairVars

\* self._prolog_server.connection_failed = True, when the code reaches it
SetFlagMutOverwrite(failed, reached) == reached

SetFlag(failed, reached) == failed \/ reached

\* an operation that returns nothing, whatever it decoded
OutcomeMutNone(o, d) == "None"

\* what the operation hands to its caller once the reply is decoded
Outcome(o, d) ==
  IF d.raise \/ o \in ReturningOps THEN d.what ELSE "None"

\* self._return_prolog_response() of the operation, and for halt_server the
\* assignment that follows it, when the engine's reply is one of replies
Decoded(s, jsonResult) ==
  LET d == ReturnPrologResponse(jsonResult)
      halted == op[s] \in HaltingOps /\ ~d.raise
  IN /\ reply' = [reply EXCEPT ![s] = ReplyName(jsonResult)]
     /\ connection_failed' = SetFlag(connection_failed, d.setFlag \/ halted)
     /\ engineUp' = (engineUp /\ ~halted)
     /\ IF d.raise
        THEN FailBody(s, d.what)
        ELSE IF op[s] = "server_stop"
             THEN pc' = [pc EXCEPT ![s] = "exit"] /\ UNCHANGED result
             ELSE Finish(s, Outcome(op[s], d))

\* the operation's receive, when the engine's reply is one of replies
ReceiveWith(s, replies) ==
  /\ pc[s] = "recv"
  /\ \/ /\ cstate[s] = "open" /\ engineUp
        /\ \E jsonResult \in replies : Decoded(s, jsonResult)
        /\ Consumed(s)
        /\ UNCHANGED cstate
     \/ /\ cstate' = [cstate EXCEPT ![s] = "broken"]   \* recv raises: connection reset
        /\ FailBody(s, "OSError")
        /\ UNCHANGED <<connection_failed, engineUp, reply, wireVars>>
  /\ UNCHANGED <<launch_server, unix_domain_socket, process, sockFile, live, nproc, nconn, socket, idVars, op,
                 flagRead, killRead, recvVars, decVars>>

\* the reply is any of those the operation's docstring lists
Receive(s) ==
  /\ ReceiveWith(s, RepliesTo(FrameOf(op[s])))
  /\ UNCHANGED <<engVars, pairVars>>

(***************************************************************************)
(* PrologThread.stop()                                                     *)
(***************************************************************************)
\* a close that takes every session's socket with it
CloseMutEverySession(s) ==
  /\ cstate' = [x \in Slots |-> "closed"]
  /\ socket' = [x \in Slots |-> "None"]

\* self._socket.close(); self._socket = None
Close(s) ==
  /\ cstate' = [cstate EXCEPT ![s] = "closed"]
  /\ socket' = [socket EXCEPT ![s] = "None"]

\* stop() returns: to its caller, or into PrologServer.stop(), which goes on to
\* wait for the process unless an error is on its way out of the with statement
StopDone(s) ==
  IF op[s] = "server_stop"
  THEN /\ pc' = [pc EXCEPT ![s] = IF result[s] = "none" THEN "wait" ELSE "done"]
       /\ UNCHANGED result
  ELSE Finish(s, "None")

\* the test that guards the close handshake
SkipCloseMutAlwaysClose(failed) == FALSE

SkipClose(failed) == failed

\* stop() up to its first send: nothing without a socket, no handshake when
\* the handle's failure flag is read as set
StopEnter(s) ==
  IF socket[s] = "None"
  THEN /\ StopDone(s)
       /\ UNCHANGED <<socket, cstate, flagRead>>
  ELSE /\ flagRead' = [flagRead EXCEPT ![s] = connection_failed]
       /\ IF SkipClose(connection_failed)
          THEN Close(s) /\ StopDone(s)
          ELSE /\ pc' = [pc EXCEPT ![s] = "stop_send"]
               /\ UNCHANGED <<socket, cstate, result>>

\* the caller calls stop()
Stop(s) ==
  /\ pc[s] = "idle"
  /\ op' = [op EXCEPT ![s] = "stop"]
  /\ StopEnter(s)
  /\ UNCHANGED <<handleVars, nconn, idVars, reply, wireVars, killRead, recvVars, decVars, pairVars, engVars>>

\* __exit__ of the with statement in PrologServer.stop() calls stop()
ExitStop(s) ==
  /\ pc[s] = "exit"
  /\ StopEnter(s)
  /\ UNCHANGED <<handleVars, nconn, idVars, op, reply, wireVars, killRead, recvVars, decVars, pairVars, engVars>>

\* self._send("close.\n"): an OSError is swallowed
StopSendWith(s) ==
  /\ pc[s] = "stop_send"
  /\ \/ /\ cstate[s] = "open"
        /\ Sent(s, "close")
        /\ pc' = [pc EXCEPT ![s] = "stop_recv"]
        /\ UNCHANGED <<socket, cstate, result>>
     \/ /\ Close(s)
        /\ StopDone(s)
        /\ UNCHANGED wireVars
  /\ UNCHANGED <<handleVars, nconn, idVars, op, flagRead, reply, killRead, recvVars, decVars, engVars>>

StopSend(s) ==
  /\ StopSendWith(s)
  /\ UNCHANGED pairVars

\* self._return_prolog_response() inside stop(): only an OSError is swallowed
StopReceiveWith(s, replies) ==
  /\ pc[s] = "stop_recv"
  /\ \/ /\ cstate[s] = "open" /\ engineUp
        /\ \E jsonResult \in replies :
             LET d == ReturnPrologResponse(jsonResult)
             IN /\ reply' = [reply EXCEPT ![s] = ReplyName(jsonResult)]
                /\ connection_failed' = SetFlag(connection_failed, d.setFlag)
                /\ IF d.raise
                   THEN /\ Finish(s, d.what)
                        /\ UNCHANGED <<socket, cstate>>
                   ELSE Close(s) /\ StopDone(s)
        /\ Consumed(s)
     \/ /\ Close(s)                            \* recv raises: connection reset
        /\ StopDone(s)
        /\ UNCHANGED <<connection_failed, reply, wireVars>>
  /\ UNCHANGED <<launch_server, unix_domain_socket, process, sockFile, live, nproc, engineUp, nconn, idVars, op,
                 flagRead, killRead, recvVars, decVars, engVars>>

\* the reply to close is any of those the engine may give
StopReceive(s) ==
  /\ StopReceiveWith(s, RepliesTo("close"))
  /\ UNCHANGED pairVars

(***************************************************************************)
(* PrologServer.stop(kill)                                                 *)
(***************************************************************************)
\* the test that chooses between killing the process and asking it to quit
UseKillMutIgnoreFlag(kill, failed) == kill

UseKill(kill, failed) == kill \/ failed

\* os.remove(self._unix_domain_socket) inside try/except Exception: pass;
\* a file that is absent or cannot be removed stays as it is
Remove(uds, file) == IF uds /\ file = "present" THEN "absent" ELSE file

\* self._process.wait(), the removal of the socket file, self._process = None
Reap ==
  /\ live' = live \ {process}
  /\ sockFile' = Remove(unix_domain_socket, sockFile)
  /\ process' = 0

ServerStop ==
  /\ Call(Temp, "server_stop")
  /\ \E kill \in BOOLEAN :
       \/ /\ process = 0                       \* no process: nothing to do
          /\ Finish(Temp, "None")
          /\ UNCHANGED <<process, sockFile, live, engineUp, socket, cstate, idVars,
                         first, creds, pend, killRead>>
       \/ /\ process # 0
          /\ killRead' = UseKill(kill, connection_failed)
          /\ IF UseKill(kill, connection_failed)
             THEN /\ Reap                      \* kill(), then wait()
                  /\ engineUp' = FALSE
                  /\ Finish(Temp, "None")
                  /\ UNCHANGED <<socket, cstate, idVars, first, creds, pend>>
             ELSE \* with self.create_thread() as prologThread: a new
                  \* PrologThread, whose __enter__ is start()
                  /\ socket' = [socket EXCEPT ![Temp] = "socket"]
                  /\ cstate' = [cstate EXCEPT ![Temp] = "created"]
                  /\ communication_thread_id' =
                       [communication_thread_id EXCEPT ![Temp] = "None"]
                  /\ goal_thread_id' = [goal_thread_id EXCEPT ![Temp] = "None"]
                  /\ first' = [first EXCEPT ![Temp] = "none"]
                  /\ creds' = [creds EXCEPT ![Temp] = 0]
                  /\ pend' = [pend EXCEPT ![Temp] = 0]
                  /\ pc' = [pc EXCEPT ![Temp] = "connect"]
                  /\ UNCHANGED <<process, sockFile, live, engineUp, result>>
  /\ UNCHANGED <<launch_server, unix_domain_socket, connection_failed, nproc, nconn, flagRead, reply,
                 sent, recvVars, decVars, pairVars, engVars>>

\* result = self._process.wait() after the quit exchange, and the cleanup
ServerStopWait ==
  /\ pc[Temp] = "wait"
  /\ Reap
  /\ Finish(Temp, "None")
  /\ UNCHANGED <<launch_server, unix_domain_socket, connection_failed, nproc, engineUp, nconn, socket,
                 cstate, idVars, op, flagRead, reply, wireVars, killRead, recvVars, decVars, pairVars, engVars>>

(***************************************************************************)
(* The environment: the engine may stop serving at any time.               *)
(***************************************************************************)
EngineCrash ==
  /\ engineUp
  /\ engineUp' = FALSE
  /\ UNCHANGED <<launch_server, unix_domain_socket, connection_failed, process, sockFile, live, nproc, nconn,
                 socket, cstate, idVars, pc, op, flagRead, reply, result, wireVars,
                 killRead, recvVars, decVars, pairVars, engVars>>

Next ==
  \/ ServerStart
  \/ ServerStop
  \/ ServerStopWait
  \/ EngineCrash
  \/ \E s \in Sessions :
       \/ Start(s)
       \/ Query(s)
       \/ QueryAsync(s)
       \/ CancelQueryAsync(s)
       \/ QueryAsyncResult(s)
       \/ HaltServer(s)
       \/ Stop(s)
  \/ \E s \in Slots :
       \/ Connect(s)
       \/ SendPassword(s)
       \/ ReceivePassword(s)
       \/ Send(s)
       \/ Receive(s)
       \/ ExitStop(s)
       \/ StopSend(s)
       \/ StopReceive(s)
       \/ Return(s)

Spec == Init /\ [][Next]_vars

\* the same operations on a handle that serves over a Unix domain socket
SpecFile == InitFile /\ [][Next]_vars


(***************************************************************************)
(* PrologThread._receive(), byte by byte.  SpecRecv follows one call on a  *)
(* connected socket: the peer has written some prefix of a framed message, *)
(* may close or reset the connection at any time, and every socket.recv()  *)
(* returns any non-empty run of the bytes in flight, or b'' once the peer  *)
(* has closed and nothing is left.                                         *)
(***************************************************************************)
\* the buffer size passed to socket.recv
RecvSize == 4096

Dot == 46
Newline == 10
Digit0 == 48
LetterA == 97

Min(a, b) == IF a < b THEN a ELSE b

\* str(n) for n >= 0, as UTF-8 bytes
RECURSIVE Decimal(_)
Decimal(n) ==
  IF n < 10 THEN <<Digit0 + n>>
  ELSE Append(Decimal(n \div 10), Digit0 + (n % 10))

IsDigit(b) == b >= Digit0 /\ b <= Digit0 + 9

\* int(stringLength) on the bytes collected as the header: -1 stands for the
\* ValueError int() raises on an empty string or a byte that is no digit
RECURSIVE ParseInt(_)
ParseInt(bytes) ==
  IF bytes = <<>> \/ \E i \in 1..Len(bytes) : ~IsDigit(bytes[i]) THEN -1
  ELSE IF Len(bytes) = 1 THEN bytes[1] - Digit0
  ELSE ParseInt(SubSeq(bytes, 1, Len(bytes) - 1)) * 10 + (bytes[Len(bytes)] - Digit0)

RECURSIVE Repeat(_, _)
Repeat(b, n) == IF n = 0 THEN <<>> ELSE <<b>> \o Repeat(b, n - 1)

\* a message body of n bytes: it always ends with ".\n"
Body(n) == Repeat(LetterA, n - 2) \o <<Dot, Newline>>

\* <stringByteLength>.\n<stringBytes> after d keepalive bytes
Framed(d, body) == Repeat(Dot, d) \o Decimal(Len(body)) \o <<Dot, Newline>> \o body

\* <stringByteLength>.\n<stringBytes>.\n after d keepalive bytes
Frame(d, n) == Framed(d, Body(n))

\* bodies that hold the bytes a header is made of: "1.\n.\n" and "\n2.\n"
HeaderLike ==
  {<<Digit0 + 1, Dot, Newline, Dot, Newline>>, <<Newline, Digit0 + 2, Dot, Newline>>}

Bodies == {Body(n) : n \in 2..MaxBody} \cup HeaderLike

\* headers that hold no number: "a.\n" and ".\n"
Malformed == {<<LetterA, Dot, Newline>>, <<Dot, Newline>>}

Wires == {Frame(d, n) : d \in 0..MaxDots, n \in 2..MaxBody} \cup Malformed

\* what the peer may be sending: the body and its bytes on the wire
Messages ==
  {[body |-> b, wire |-> Framed(d, b)] : d \in 0..MaxDots, b \in Bodies}
    \cup {[body |-> <<>>, wire |-> w] : w \in Malformed}

Prefixes(w) == {SubSeq(w, 1, k) : k \in 0..Len(w)}

\* the for loop over headerData while the length is not yet known
RECURSIVE ScanHeader(_, _, _)
ScanHeader(headerData, index, sz) ==
  IF index > Len(headerData)
  THEN [sizeBytes |-> sz, found |-> FALSE, data |-> <<>>]
  ELSE IF headerData[index] = Dot
  THEN ScanHeader(headerData, index + 1, sz)
  ELSE IF headerData[index] = Newline
  THEN [sizeBytes |-> sz, found |-> TRUE,
        data |-> SubSeq(headerData, index + 1, Len(headerData))]
  ELSE ScanHeader(headerData, index + 1, Append(sz, headerData[index]))

\* a while test that stops as soon as the length is known
MoreExpectedMutHeaderOnly == amount_expected = -1

\* the while test of _receive (amount_expected -1 is None)
MoreExpected == amount_expected = -1 \/ amount_received < amount_expected

\* the body of the while loop once recv has returned headerData
LoopBody(headerData) ==
  IF amount_expected = -1
  THEN LET h == ScanHeader(headerData, 1, sizeBytes) IN
       /\ sizeBytes' = h.sizeBytes
       /\ IF ~h.found
          THEN UNCHANGED <<rpc, amount_expected, amount_received, bytesReceived>>
          ELSE IF ParseInt(h.sizeBytes) = -1
          THEN /\ rpc' = "ValueError"
               /\ UNCHANGED <<amount_expected, amount_received, bytesReceived>>
          ELSE /\ amount_expected' = ParseInt(h.sizeBytes)
               /\ amount_received' = amount_received + Len(h.data)
               /\ bytesReceived' = bytesReceived \o h.data
               /\ UNCHANGED rpc
  ELSE /\ amount_received' = amount_received + Len(headerData)
       /\ bytesReceived' = bytesReceived \o headerData
       /\ UNCHANGED <<rpc, amount_expected, sizeBytes>>

\* recv returns the next k bytes in flight
RecvData ==
  /\ rpc = "loop" /\ MoreExpected /\ stream # <<>>
  /\ \E k \in 1..Min(Len(stream), RecvSize) :
       /\ LoopBody(SubSeq(stream, 1, k))
       /\ stream' = SubSeq(stream, k + 1, Len(stream))
  /\ reads' = reads + 1
  /\ UNCHANGED <<peer, eofReads, framed, unwritten, sessVars, decVars, pairVars, engVars>>

\* recv returns b'': the peer has closed and nothing is in flight
RecvEof ==
  /\ rpc = "loop" /\ MoreExpected /\ stream = <<>> /\ peer = "closed"
  /\ eofReads < MaxEofReads
  /\ LoopBody(<<>>)
  /\ eofReads' = eofReads + 1
  /\ UNCHANGED <<stream, peer, reads, framed, unwritten, sessVars, decVars, pairVars, engVars>>

\* recv raises ConnectionResetError
RecvReset ==
  /\ rpc = "loop" /\ MoreExpected /\ stream = <<>> /\ peer = "reset"
  /\ rpc' = "OSError"
  /\ UNCHANGED <<stream, peer, amount_expected, amount_received, sizeBytes,
                 bytesReceived, eofReads, reads, framed, unwritten, sessVars, decVars, pairVars, engVars>>

\* the while test fails: _receive returns the decoded bytes
ReceiveReturn ==
  /\ rpc = "loop" /\ ~MoreExpected
  /\ rpc' = "returned"
  /\ UNCHANGED <<stream, peer, amount_expected, amount_received, sizeBytes,
                 bytesReceived, eofReads, reads, framed, unwritten, sessVars, decVars, pairVars, engVars>>

\* the peer closes the connection in order, or resets it
PeerCloses ==
  /\ peer = "open"
  /\ peer' \in {"closed", "reset"}
  /\ UNCHANGED <<stream, rpc, amount_expected, amount_received, sizeBytes,
                 bytesReceived, eofReads, reads, framed, unwritten, sessVars, decVars, pairVars, engVars>>

\* _receive is entered with its locals initialised; the session is not acting
InitRecv ==
  /\ InitSess /\ launch_server = FALSE /\ engineUp = TRUE
  /\ \E m \in Messages :
       /\ stream \in Prefixes(m.wire)
       /\ framed = m.body
       /\ unwritten = Len(m.wire) - Len(stream)
  /\ peer = "open" /\ rpc = "loop"
  /\ amount_expected = -1 /\ amount_received = 0
  /\ sizeBytes = <<>> /\ bytesReceived = <<>> /\ eofReads = 0 /\ reads = 0
  /\ InitDecodeIdle
  /\ InitEngineIdle

NextRecv == RecvData \/ RecvEof \/ RecvReset \/ ReceiveReturn \/ PeerCloses

SpecRecv == InitRecv /\ [][NextRecv]_vars

(* Two frames on the connection back to back: SpecStream starts with both   *)
(* written by the peer, calls _receive for the first and, when that has     *)
(* returned, for the second.                                                *)
\* the second message, "b.\n", and its frame
SecondBody == <<LetterA + 1, Dot, Newline>>
SecondFrame == Framed(0, SecondBody)

\* _receive is called again: its locals are initialised anew
ReceiveNext ==
  /\ rpc = "returned" /\ framed # SecondBody
  /\ rpc' = "loop"
  /\ amount_expected' = -1 /\ amount_received' = 0
  /\ sizeBytes' = <<>> /\ bytesReceived' = <<>>
  /\ framed' = SecondBody
  /\ UNCHANGED <<stream, peer, eofReads, reads, unwritten, sessVars, decVars, pairVars, engVars>>

InitStream ==
  /\ InitSess /\ launch_server = FALSE /\ engineUp = TRUE
  /\ \E d \in 0..MaxDots, b \in Bodies :
       /\ stream = Framed(d, b) \o SecondFrame
       /\ framed = b
       /\ unwritten = 0
  /\ peer = "open" /\ rpc = "loop"
  /\ amount_expected = -1 /\ amount_received = 0
  /\ sizeBytes = <<>> /\ bytesReceived = <<>> /\ eofReads = 0 /\ reads = 0
  /\ InitDecodeIdle
  /\ InitEngineIdle

NextStream == NextRecv \/ ReceiveNext

SpecStream == InitStream /\ [][NextStream]_vars

(***************************************************************************)
(* _return_prolog_response on one reply.  SpecDecode decodes each reply of *)
(* a bounded set: false, true(L) for every list L of up to MaxAnswers      *)
(* binding lists, exception(Inner) for atoms and compounds of every name   *)
(* the decoder tests, and a reply of another functor.                      *)
(***************************************************************************)
\* =(Variable, Term), one binding of an answer
Eq(v, t) == Compound("=", <<Atom(v), t>>)

\* the binding lists of one answer: none, one variable, two variables
BindingLists ==
  { List(<<>>),
    List(<<Eq("X", Atom("a"))>>),
    List(<<Eq("X", Atom("b"))>>),
    List(<<Eq("X", Atom("a")), Eq("Y", Compound("f", <<Atom("b")>>))>>) }

AnswerLists == UNION {[1..n -> BindingLists] : n \in 0..MaxAnswers}

\* the names _return_prolog_response tests an exception for, and another one
ExceptionNames ==
  {"no_more_results", "connection_failed", "time_limit_exceeded", "no_query",
   "cancel_goal", "result_not_available", "existence_error"}

\* inner terms of an exception: the atom, and a compound of that functor
Inners == {Atom(n) : n \in ExceptionNames}
            \cup {Compound(n, <<Atom("a")>>) : n \in ExceptionNames}

DecodeInputs ==
  {FalseReply, Atom("false"), Compound("other", <<Atom("a")>>)}
    \cup {TrueReply(answers) : answers \in AnswerLists}
    \cup {ExceptionReply(inner) : inner \in Inners}

\* the part of _return_prolog_response that follows json.loads
Decode ==
  /\ decodeOut = Pending
  /\ decodeOut' = ReturnPrologResponse(decodeIn)
  /\ errorJson' = ExceptionJson(decodeOut', decodeIn)
  /\ connection_failed' = SetFlag(connection_failed, decodeOut'.setFlag)
  /\ UNCHANGED <<launch_server, unix_domain_socket, process, sockFile, live, nproc, engineUp, nconn, socket, cstate,
                 idVars, pc, op, flagRead, reply, result, wireVars, killRead,
                 decodeIn, termIn, termOut, termBack, sendValue, sentBytes, recvVars, engVars, pairVars>>

InitDecode ==
  /\ InitSess /\ launch_server = FALSE /\ engineUp = TRUE
  /\ InitRecvIdle
  /\ decodeIn \in DecodeInputs
  /\ decodeOut = Pending /\ errorJson = NoError
  /\ termIn = NoTerm /\ termOut = NotConverted /\ termBack = NotRead
  /\ sendValue = <<>> /\ sentBytes = <<>>
  /\ InitEngineIdle

NextDecode == Decode

SpecDecode == InitDecode /\ [][NextDecode]_vars

\* exceptions a goal can throw beside those above: a syntax error, a term
\* that is not an atom or compound, and a term that holds the empty atom
\* (the goal '' ends with an existence error for the procedure ''/0)
Thrown ==
  {Compound("syntax_error", <<Atom("cannot_start_term")>>),
   List(<<Atom("a")>>),
   Compound("existence_error", <<Atom("procedure"), Atom("")>>)}

ErrorInputs == DecodeInputs \cup {ExceptionReply(inner) : inner \in Thrown}

InitError ==
  /\ InitSess /\ launch_server = FALSE /\ engineUp = TRUE
  /\ InitRecvIdle
  /\ decodeIn \in ErrorInputs
  /\ decodeOut = Pending /\ errorJson = NoError
  /\ termIn = NoTerm /\ termOut = NotConverted /\ termBack = NotRead
  /\ sendValue = <<>> /\ sentBytes = <<>>
  /\ InitEngineIdle

\* _return_prolog_response on the replies of SpecDecode and on these
SpecError == InitError /\ [][NextDecode]_vars

(***************************************************************************)
(* SpecQuote converts one term with json_to_prolog: an identifier of up to *)
(* MaxText characters standing alone, as the functor of a compound, or as  *)
(* the item of a list; compounds and lists of up to MaxArgs terms.  The    *)
(* string returned is then read as source text, as the engine reads a goal *)
(* that is sent to it.                                                     *)
(***************************************************************************)
\* terms that stand as an argument or an item: atoms that are and are not
\* quoted, a number, and a compound and a list of their own
Leaves == {JStr(<<"a">>), JStr(<<" ">>), JNumber(<<"1">>)}
Items == Leaves \cup {JFunctor(<<"a">>, <<JStr(<<"a">>)>>), JList(<<JNumber(<<"1">>)>>)}
ArgLists == UNION {[1..n -> Leaves] : n \in 0..MaxArgs}
ItemLists == UNION {[1..n -> Items] : n \in 0..MaxArgs}

TermInputs ==
  {JStr(text) : text \in Texts} \cup {JNumber(<<"1">>), JNumber(<<"1", "1">>)}
    \cup {JFunctor(text, args) : text \in Texts, args \in ArgLists}
    \cup {JList(<<JStr(text)>>) : text \in Texts}
    \cup {JList(items) : items \in ItemLists}

(* The reader of the engine is not part of prologserver.py: it follows the *)
(* syntax of Prolog text for the tokens json_to_prolog writes.  A quoted   *)
(* atom ends at the first quote that is not doubled, and two quotes inside *)
(* it stand for one; a name is a compound when "(" follows it at once; a   *)
(* variable cannot be the name of a compound.                              *)
ReadFailed == [ok |-> FALSE, term |-> NotRead, rest |-> <<>>]
ReadOk(term, rest) == [ok |-> TRUE, term |-> term, rest |-> rest]
SyntaxError == [kind |-> "syntax_error", name |-> <<>>, args |-> <<>>]
JVar(text) == [kind |-> "var", name |-> text, args |-> <<>>]

Drop(text, n) == SubSeq(text, n + 1, Len(text))

\* the length of the longest prefix of text whose characters are all in cs
Run(text, cs) ==
  CHOOSE n \in 0..Len(text) :
    /\ \A i \in 1..n : text[i] \in cs
    /\ n = Len(text) \/ text[n + 1] \notin cs

SkipSpaces(text) == Drop(text, Run(text, {" "}))

\* the characters of a quoted atom from position i on, acc the ones read
RECURSIVE ScanQuoted(_, _, _)
ScanQuoted(text, i, acc) ==
  IF i > Len(text) THEN ReadFailed
  ELSE IF text[i] # "'" THEN ScanQuoted(text, i + 1, Append(acc, text[i]))
  ELSE IF i < Len(text) /\ text[i + 1] = "'" THEN ScanQuoted(text, i + 2, Append(acc, "'"))
  ELSE ReadOk(JStr(acc), Drop(text, i))

RECURSIVE ParseTerm(_)
RECURSIVE ParseArgs(_, _, _)

\* a name that has been read: an atom, or a compound when "(" follows
Named(name, rest) ==
  IF rest # <<>> /\ rest[1] = "("
  THEN LET a == ParseArgs(Tail(rest), ")", <<>>) IN
       IF a.ok THEN ReadOk(JFunctor(name, a.term.args), a.rest) ELSE ReadFailed
  ELSE ReadOk(JStr(name), rest)

ParseTerm(text) ==
  LET t == SkipSpaces(text)
      n == Run(t, {"a", "A", "1", "_"})
      word == SubSeq(t, 1, n)
  IN IF t = <<>> THEN ReadFailed
     ELSE CASE t[1] = "[" -> ParseArgs(Tail(t), "]", <<>>)
            [] t[1] = "'" ->
                 LET q == ScanQuoted(t, 2, <<>>) IN
                 IF q.ok THEN Named(q.term.name, q.rest) ELSE ReadFailed
            [] t[1] = "a" -> Named(word, Drop(t, n))
            [] t[1] = "1" ->
                 IF \A i \in 1..n : word[i] = "1"
                 THEN ReadOk(JNumber(word), Drop(t, n)) ELSE ReadFailed
            [] t[1] \in {"A", "_"} ->
                 IF n < Len(t) /\ t[n + 1] = "(" THEN ReadFailed
                 ELSE ReadOk(JVar(word), Drop(t, n))
            [] OTHER -> ReadFailed

\* the terms between an opening bracket and close, separated by commas
ParseArgs(text, close, acc) ==
  LET t == SkipSpaces(text) IN
  IF t = <<>> THEN ReadFailed
  ELSE IF t[1] = close /\ acc = <<>> THEN ReadOk(JList(<<>>), Tail(t))
  ELSE LET r == ParseTerm(t)
           u == SkipSpaces(r.rest)
       IN IF ~r.ok \/ u = <<>> THEN ReadFailed
          ELSE IF u[1] = close THEN ReadOk(JList(Append(acc, r.term)), Tail(u))
          ELSE IF u[1] = "," THEN ParseArgs(Tail(u), close, Append(acc, r.term))
          ELSE ReadFailed

\* the term the engine reads from a text, as json; a text that is not one
\* term is a syntax error
read_term(text) ==
  LET r == ParseTerm(text) IN
  IF r.ok /\ SkipSpaces(r.rest) = <<>> THEN r.term ELSE SyntaxError

Convert ==
  /\ termOut = NotConverted
  /\ termOut' = json_to_prolog(termIn)
  /\ UNCHANGED <<sessVars, recvVars, decodeIn, decodeOut, errorJson, termIn, termBack, sendValue, sentBytes, engVars, pairVars>>

\* the string json_to_prolog returned is submitted to the engine
ReadBack ==
  /\ termOut # NotConverted /\ ~termOut.raise
  /\ termBack = NotRead
  /\ termBack' = read_term(termOut.text)
  /\ UNCHANGED <<sessVars, recvVars, decodeIn, decodeOut, errorJson, termIn, termOut, sendValue, sentBytes, engVars, pairVars>>

InitQuote ==
  /\ InitSess /\ launch_server = FALSE /\ engineUp = TRUE
  /\ InitRecvIdle
  /\ decodeIn = FalseReply /\ decodeOut = Pending /\ errorJson = NoError
  /\ termIn \in TermInputs
  /\ termOut = NotConverted /\ termBack = NotRead
  /\ sendValue = <<>> /\ sentBytes = <<>>
  /\ InitEngineIdle

NextQuote == Convert \/ ReadBack

SpecQuote == InitQuote /\ [][NextQuote]_vars

(***************************************************************************)
(* _send.  A string is the sequence of its code points; SpecSend sends one *)
(* string of up to MaxSend characters out of a letter, a character of two  *)
(* UTF-8 bytes, the space, the newline and the dot.                        *)
(***************************************************************************)
\* a, e with acute accent (U+00E9), space, "\n", "."
SendChars == {LetterA, 233, 32, Newline, Dot}
SendValues == UNION {[1..n -> SendChars] : n \in 0..MaxSend}

\* the characters str.strip() removes, of those above
Whitespace == {32, Newline}

Reverse(text) == [i \in 1..Len(text) |-> text[Len(text) + 1 - i]]

\* str.lstrip and str.rstrip with a set of characters, str.strip()
lstrip(text, cs) == Drop(text, Run(text, cs))
rstrip(text, cs) == SubSeq(text, 1, Len(text) - Run(Reverse(text), cs))
strip(text) == rstrip(lstrip(text, Whitespace), Whitespace)

\* str.encode("utf-8") for code points below U+0800
RECURSIVE encode(_)
encode(text) ==
  IF text = <<>> THEN <<>>
  ELSE (IF text[1] < 128 THEN <<text[1]>>
        ELSE <<192 + (text[1] \div 64), 128 + (text[1] % 64)>>) \o encode(Tail(text))

\* the value sent with its trailing characters left as they are
NormalisedMutNoStrip(value) == value \o <<Dot, Newline>>

\* value.strip().rstrip("\n.") + ".\n"
Normalised(value) == rstrip(strip(value), {Newline, Dot}) \o <<Dot, Newline>>

\* msgHeader: the length of the encoded value in decimal, ".\n"
msgHeader(utf8Value) == Decimal(Len(utf8Value)) \o <<Dot, Newline>>

\* _send(value): sendall(msgHeader), sendall(utf8Value)
SendValue ==
  /\ sentBytes = <<>>
  /\ LET utf8Value == encode(Normalised(sendValue))
     IN sentBytes' = msgHeader(utf8Value) \o utf8Value
  /\ UNCHANGED <<sessVars, recvVars, decodeIn, decodeOut, errorJson, termIn, termOut,
                 termBack, sendValue, engVars, pairVars>>

InitSend ==
  /\ InitSess /\ launch_server = FALSE /\ engineUp = TRUE
  /\ InitRecvIdle
  /\ decodeIn = FalseReply /\ decodeOut = Pending /\ errorJson = NoError
  /\ termIn = NoTerm /\ termOut = NotConverted /\ termBack = NotRead
  /\ sendValue \in SendValues /\ sentBytes = <<>>
  /\ InitEngineIdle

NextSend == SendValue

SpecSend == InitSend /\ [][NextSend]_vars

(***************************************************************************)
(* Async queries.  The engine's side (the goal thread of a connection, its *)
(* queue of results and its handling of run_async, async_result and        *)
(* cancel_async) is not part of prologserver.py: it follows the behaviour  *)
(* the specification and the docstrings of query_async(),                  *)
(* query_async_result() and cancel_query_async() describe.  SpecAsync      *)
(* drives one connected session against it.                                *)
(***************************************************************************)
\* the value X takes in the k-th answer of a query
AnswerNames == <<"first", "second", "third", "fourth", "fifth">>

\* the value Y takes in every answer of a query: queries accepted one after
\* the other on a connection differ in it (t is 0 or 1)
QueryNames == <<"even", "odd">>

\* the bindings of the k-th answer of a query with tag t
Bindings(t, k) ==
  List(<<Eq("X", Atom(AnswerNames[k])), Eq("Y", Atom(QueryNames[t + 1]))>>)

\* the k-th answer alone, and the first n answers as one reply
Answer(t, k) == TrueReply(<<Bindings(t, k)>>)
AllAnswers(t, n) == TrueReply([k \in 1..n |-> Bindings(t, k)])

EndMarker == ExceptionReply(Atom("no_more_results"))
NoQueryReply == ExceptionReply(Atom("no_query"))

\* how a goal ends when it is not cancelled: by itself, by its timeout, or by
\* an exception it throws
Endings == {"normal", "timeout", "error"}

\* what the goal thread puts on the queue when the goal ends
EndOf(e) ==
  CASE e.ending = "normal" ->
         (IF e.total = 0 THEN <<FalseReply>>
          ELSE IF e.findAll THEN <<AllAnswers(e.tag, e.total)>> ELSE <<>>) \o <<EndMarker>>
    [] e.ending = "timeout" -> <<ExceptionReply(Atom("time_limit_exceeded"))>>
    [] OTHER -> <<ExceptionReply(Atom("test"))>>

\* results of the last query that were not retrieved, the end marker aside
Unretrieved(e) == \E i \in 1..Len(e.queue) : e.queue[i] # EndMarker

\* the replies to a synchronous query with tag t
\* the reply to a request whose goal text does not parse: the request is
\* refused as it is read, the goal thread is not involved
SyntaxErrorReply ==
  ExceptionReply(Compound("syntax_error", <<Atom("cannot_start_term")>>))

SyncReplies(t) ==
  {AllAnswers(t, n) : n \in 1..MaxGoalAnswers}
    \cup {FalseReply, ExceptionReply(Atom("time_limit_exceeded"))}

\* the engine's reply to a request and the state it leaves, for each way the
\* engine may handle it; no reply to run_async or run while a goal is running:
\* the request waits for the goal thread, and what the earlier query left on
\* the queue is dropped when the new one is taken up
Handled(e, frame) ==
  CASE frame = "run_async" ->
         {[reply |-> SyntaxErrorReply, next |-> e]}
           \cup
         (IF e.running THEN {}
          ELSE {[reply |-> TrueReply(<<List(<<>>)>>),
                 next |-> [running |-> TRUE, findAll |-> f, total |-> n, made |-> 0,
                           ending |-> x, ended |-> "none", cancelled |-> FALSE,
                           queue |-> <<>>,
                           tag |-> 1 - e.tag, replaced |-> Unretrieved(e)]] :
                  f \in BOOLEAN, n \in 0..MaxGoalAnswers, x \in Endings})
    [] frame = "run" ->
         IF e.running THEN {}
         ELSE {[reply |-> r,
                next |-> [NoQuery EXCEPT !.tag = 1 - e.tag,
                                         !.replaced = Unretrieved(e)]] :
                 r \in SyncReplies(1 - e.tag)}
    [] frame = "async_result" ->
         IF e.queue # <<>>
         THEN {[reply |-> Head(e.queue), next |-> [e EXCEPT !.queue = Tail(e.queue)]]}
         ELSE IF e.running
         THEN {[reply |-> ExceptionReply(Atom("result_not_available")), next |-> e]}
         ELSE {[reply |-> NoQueryReply, next |-> e]}
    [] frame = "cancel_async" ->
         IF e.running \/ Unretrieved(e)
         THEN {[reply |-> TrueReply(<<List(<<>>)>>),
                next |-> [e EXCEPT !.cancelled = e.running]]}
         ELSE {[reply |-> NoQueryReply, next |-> e]}
    [] OTHER -> {}

\* the running goal finds its next answer
GoalAnswer(s) ==
  /\ engine[s].running /\ engine[s].made < engine[s].total
  /\ engine' = [engine EXCEPT ![s] =
       [@ EXCEPT !.made = @ + 1,
                 !.queue = IF engine[s].findAll THEN @
                           ELSE Append(@, Answer(engine[s].tag, engine[s].made + 1))]]
  /\ UNCHANGED <<sessVars, recvVars, decVars, pairVars, drained, returned>>

\* the running goal ends after its last answer
GoalEnd(s) ==
  /\ engine[s].running /\ engine[s].made = engine[s].total
  /\ engine' = [engine EXCEPT ![s] =
       [@ EXCEPT !.running = FALSE, !.ended = engine[s].ending,
                 !.queue = @ \o EndOf(engine[s])]]
  /\ UNCHANGED <<sessVars, recvVars, decVars, pairVars, drained, returned>>

\* the cancel_goal exception injected by cancel_async ends the running goal
GoalCancelled(s) ==
  /\ engine[s].running /\ engine[s].cancelled
  /\ engine' = [engine EXCEPT ![s] =
       [@ EXCEPT !.running = FALSE, !.ended = "cancelled",
                 !.queue = Append(@, ExceptionReply(Atom("cancel_goal")))]]
  /\ UNCHANGED <<sessVars, recvVars, decVars, pairVars, drained, returned>>

\* _return_prolog_response() of an operation: the engine handles the request
\* and the session decodes its reply
AsyncReceiveWith(s) ==
  \E h \in Handled(engine[s], FrameOf(op[s])) :
    /\ ReceiveWith(s, {h.reply})
    /\ engine' = [engine EXCEPT ![s] = h.next]
    /\ drained' = [drained EXCEPT ![s] =
         IF cstate'[s] # "open" THEN @
         ELSE IF op[s] = "query_async_result"
         THEN Append(@, [what |-> result'[s], reply |-> ReplyName(h.reply),
                         value |-> ReturnPrologResponse(h.reply).value])
         ELSE IF h.next.tag # engine[s].tag THEN <<>> ELSE @]
    /\ returned' = [returned EXCEPT ![s] =
         IF op[s] = "query" /\ result'[s] = "list"
         THEN ReturnPrologResponse(h.reply).value ELSE @]

\* the same on a session whose connection no other thread reads
AsyncReceive(s) ==
  /\ AsyncReceiveWith(s)
  /\ UNCHANGED pairVars

\* the caller calls query_async_result(), as long as its calls are recorded
AsyncResultCall(s) ==
  /\ Len(drained[s]) < MaxDrain
  /\ QueryAsyncResult(s)

\* a session that start() has connected to a running engine
InitAsync ==
  /\ launch_server = FALSE /\ connection_failed = FALSE
  /\ unix_domain_socket = FALSE /\ sockFile = "absent"
  /\ process = 0 /\ live = {} /\ nproc = 0
  /\ engineUp = TRUE /\ nconn = 1
  /\ socket = [s \in Slots |-> IF s \in Sessions THEN "socket" ELSE "None"]
  /\ cstate = [s \in Slots |-> IF s \in Sessions THEN "open" ELSE "none"]
  /\ communication_thread_id = [s \in Slots |-> IF s \in Sessions THEN CommName(1) ELSE "None"]
  /\ goal_thread_id = [s \in Slots |-> IF s \in Sessions THEN GoalName(1) ELSE "None"]
  /\ pc = [s \in Slots |-> "idle"]
  /\ op = [s \in Slots |-> "none"]
  /\ flagRead = [s \in Slots |-> FALSE]
  /\ reply = [s \in Slots |-> "none"]
  /\ result = [s \in Slots |-> "none"]
  /\ first = [s \in Slots |-> IF s \in Sessions THEN "credential" ELSE "none"]
  /\ creds = [s \in Slots |-> IF s \in Sessions THEN 1 ELSE 0]
  /\ pend = [s \in Slots |-> 0]
  /\ sent = [s \in Slots |-> <<>>]
  /\ killRead = FALSE
  /\ InitRecvIdle /\ InitDecodeIdle /\ InitEngineIdle

NextAsync ==
  \E s \in Sessions :
    \/ Query(s)
    \/ QueryAsync(s)
    \/ AsyncResultCall(s)
    \/ CancelQueryAsync(s)
    \/ Send(s)
    \/ AsyncReceive(s)
    \/ Return(s)
    \/ GoalAnswer(s)
    \/ GoalEnd(s)
    \/ GoalCancelled(s)

SpecAsync == InitAsync /\ [][NextAsync]_vars

(***************************************************************************)
(* SpecPair: a session that two caller threads use, next to another        *)
(* session of the same handle. The engine's end of the shared session's    *)
(* connection is explicit: requests wait in inbox, replies in wire.        *)
(***************************************************************************)
\* answers of the goals the shared session starts with query_async()
MaxPairAnswers == 1

\* variables no step of this specification changes
pairFixed == <<launch_server, unix_domain_socket, process, sockFile, live, nproc,
               nconn, idVars, killRead, recvVars, decVars>>

\* query() or query_async() on a connected session, by its own thread, while
\* no other thread is inside stop()
PairQuery(s, o) ==
  /\ socket[s] # "None" /\ stopper.pc \in {"idle", "done"}
  /\ QueryCall(s, o)

\* self._send(...) of the operation: the request reaches the engine's inbox
PairSend(s) ==
  /\ SendWith(s)
  /\ inbox' = IF pc'[s] = "recv" THEN Append(inbox, FrameOf(op[s])) ELSE inbox
  /\ UNCHANGED <<stopper, wire, eof, syncGoal, lock>>

\* self._socket.recv(4096) in the operation's _receive returns every byte the
\* engine has written: one reply is decoded, more than one is no json
PairReceive(s) ==
  /\ pc[s] = "recv" /\ wire # <<>> /\ cstate[s] \in {"open", "closed"}
  /\ wire' = <<>>
  /\ pend' = [pend EXCEPT ![s] = pend[s] - Len(wire)]
  /\ IF Len(wire) = 1
     THEN Decoded(s, wire[1])
     ELSE /\ FailBody(s, "ValueError")
          /\ UNCHANGED <<reply, connection_failed, engineUp>>
  /\ UNCHANGED <<pairFixed, socket, cstate, op, flagRead, first, creds, sent,
                 engVars, stopper, inbox, eof, syncGoal, lock>>

\* the operation calls recv after the other thread has run
\* self._socket.close() and self._socket = None
PairRecvClosed(s) ==
  /\ pc[s] = "recv" /\ socket[s] = "None"
  /\ \E e \in {"AttributeError", "OSError"} : Finish(s, e)
  /\ UNCHANGED <<pairFixed, handleVars, socket, cstate, op, flagRead, reply, wireVars,
                 engVars, pairVars>>

\* stop() called by the session's own thread, between its operations
PairOwnStop(s) ==
  /\ stopper.pc \in {"idle", "done"}
  /\ Stop(s)

PairOwnStopSend(s) ==
  /\ StopSendWith(s)
  /\ inbox' = IF pc'[s] = "stop_recv" THEN Append(inbox, "close") ELSE inbox
  /\ UNCHANGED <<stopper, wire, eof, syncGoal, lock>>

PairOwnStopReceive(s) ==
  /\ Len(wire) = 1
  /\ StopReceiveWith(s, {wire[1]})
  /\ wire' = IF pend'[s] < pend[s] THEN <<>> ELSE wire
  /\ UNCHANGED <<stopper, inbox, eof, syncGoal, lock>>

\* stop() called by a second thread while query() of the first awaits its
\* reply: if self._socket, if not connection_failed
PairStop(s) ==
  /\ stopper.pc = "idle" /\ op[s] = "query" /\ pc[s] = "recv" /\ socket[s] # "None"
  /\ IF SkipClose(connection_failed)
     THEN Close(s) /\ stopper' = [pc |-> "done", result |-> "None"]
     ELSE stopper' = [stopper EXCEPT !.pc = "stop_send"] /\ UNCHANGED <<socket, cstate>>
  /\ UNCHANGED <<pairFixed, handleVars, pc, op, flagRead, reply, result, wireVars,
                 engVars, inbox, wire, eof, syncGoal, lock>>

\* its self._send("close.\n"): an OSError is swallowed
PairStopSend(s) ==
  /\ stopper.pc = "stop_send"
  /\ \/ /\ cstate[s] = "open"
        /\ pend' = [pend EXCEPT ![s] = pend[s] + 1]
        /\ inbox' = Append(inbox, "close")
        /\ stopper' = [stopper EXCEPT !.pc = "stop_recv"]
        /\ UNCHANGED <<socket, cstate>>
     \/ /\ Close(s)
        /\ stopper' = [pc |-> "done", result |-> "None"]
        /\ UNCHANGED <<pend, inbox>>
  /\ UNCHANGED <<pairFixed, handleVars, pc, op, flagRead, reply, result, first, creds,
                 sent, engVars, wire, eof, syncGoal, lock>>

\* its self._return_prolog_response(): only an OSError is swallowed, any
\* other error leaves stop() before the socket is closed
PairStopReceive(s) ==
  /\ stopper.pc = "stop_recv"
  /\ \/ /\ wire # <<>>
        /\ wire' = <<>>
        /\ pend' = [pend EXCEPT ![s] = pend[s] - Len(wire)]
        /\ IF Len(wire) = 1
           THEN LET d == ReturnPrologResponse(wire[1])
                IN /\ connection_failed' = SetFlag(connection_failed, d.setFlag)
                   /\ IF d.raise
                      THEN /\ stopper' = [pc |-> "done", result |-> d.what]
                           /\ UNCHANGED <<socket, cstate>>
                      ELSE /\ Close(s)
                           /\ stopper' = [pc |-> "done", result |-> "None"]
           ELSE /\ stopper' = [pc |-> "done", result |-> "ValueError"]
                /\ UNCHANGED <<socket, cstate, connection_failed>>
     \/ /\ ~eof                                  \* recv raises: connection reset
        /\ Close(s)
        /\ stopper' = [pc |-> "done", result |-> "None"]
        /\ UNCHANGED <<connection_failed, wire, pend>>
  /\ UNCHANGED <<pairFixed, launch_server, unix_domain_socket, process, sockFile, live,
                 nproc, engineUp, pc, op, flagRead, reply, result, first, creds, sent,
                 engVars, inbox, eof, syncGoal, lock>>

\* the engine's threads of a connection after it has ended
Ended(e) == [NoQuery EXCEPT !.tag = e.tag]

\* the communication thread reads the next request: run starts the goal and
\* is answered when the goal ends, close is answered and ends the connection
\* (aborting a goal that runs), any other request is answered at once
EngRead(s) ==
  /\ inbox # <<>> /\ ~eof
  /\ inbox' = Tail(inbox)
  /\ CASE Head(inbox) = "run" ->
            /\ ~syncGoal /\ ~engine[s].running
            /\ syncGoal' = TRUE
            /\ UNCHANGED <<engine, wire, eof>>
       [] Head(inbox) = "close" ->
            /\ wire' = Append(wire, TrueReply(<<List(<<>>)>>))
            /\ eof' = TRUE
            /\ syncGoal' = FALSE
            /\ engine' = [engine EXCEPT ![s] = Ended(@)]
       [] OTHER ->
            /\ ~syncGoal
            /\ \E h \in Handled(engine[s], Head(inbox)) :
                 /\ h.next.total <= MaxPairAnswers
                 /\ wire' = Append(wire, h.reply)
                 /\ engine' = [engine EXCEPT ![s] = h.next]
            /\ UNCHANGED <<eof, syncGoal>>
  /\ UNCHANGED <<sessVars, recvVars, decVars, drained, returned, stopper, lock>>

\* the goal of a run request ends and its reply is written
EngFinish(s) ==
  /\ syncGoal
  /\ \E h \in Handled(engine[s], "run") :
       /\ wire' = Append(wire, h.reply)
       /\ engine' = [engine EXCEPT ![s] = h.next]
  /\ syncGoal' = FALSE
  /\ UNCHANGED <<sessVars, recvVars, decVars, drained, returned, stopper, inbox, eof, lock>>

\* the client's end is closed and no close request was handled: the engine
\* takes it as a disconnect, aborts the goal and ends the connection
EngDrop(s) ==
  /\ cstate[s] \in {"closed", "broken"} /\ ~eof
  /\ eof' = TRUE /\ syncGoal' = FALSE /\ inbox' = <<>>
  /\ engine' = [engine EXCEPT ![s] = Ended(@)]
  /\ UNCHANGED <<sessVars, recvVars, decVars, drained, returned, stopper, wire, lock>>

\* the goal of a run_async request goes on unless it waits for the mutex
PairGoal(s) ==
  /\ ~lock /\ ~eof
  /\ GoalAnswer(s) \/ GoalEnd(s)

\* query() of the other session: answered by its own engine threads; a goal
\* that succeeds may take or release the mutex
OtherReceive(o) ==
  /\ AsyncReceiveWith(o)
  /\ lock' \in (IF reply'[o] = "true" /\ cstate'[o] = "open" THEN BOOLEAN ELSE {lock})
  /\ UNCHANGED <<stopper, inbox, wire, eof, syncGoal>>

\* two sessions that start() has connected to a running engine
InitPair ==
  /\ launch_server = FALSE /\ connection_failed = FALSE
  /\ unix_domain_socket = FALSE /\ sockFile = "absent"
  /\ process = 0 /\ live = {} /\ nproc = 0
  /\ engineUp = TRUE /\ nconn = 2
  /\ socket = [s \in Slots |-> IF s = Temp THEN "None" ELSE "socket"]
  /\ cstate = [s \in Slots |-> IF s = Temp THEN "none" ELSE "open"]
  /\ communication_thread_id = [s \in Slots |-> IF s = Temp THEN "None" ELSE CommName(s)]
  /\ goal_thread_id = [s \in Slots |-> IF s = Temp THEN "None" ELSE GoalName(s)]
  /\ pc = [s \in Slots |-> "idle"]
  /\ op = [s \in Slots |-> "none"]
  /\ flagRead = [s \in Slots |-> FALSE]
  /\ reply = [s \in Slots |-> "none"]
  /\ result = [s \in Slots |-> "none"]
  /\ first = [s \in Slots |-> IF s = Temp THEN "none" ELSE "credential"]
  /\ creds = [s \in Slots |-> IF s = Temp THEN 0 ELSE 1]
  /\ pend = [s \in Slots |-> 0]
  /\ sent = [s \in Slots |-> <<>>]
  /\ killRead = FALSE
  /\ InitRecvIdle /\ InitDecodeIdle /\ InitEngineIdle

NextPair ==
  \/ \E s \in Sessions :
       \/ PairQuery(s, "query")
       \/ PairQuery(s, "query_async")
       \/ PairSend(s)
       \/ PairReceive(s)
       \/ PairRecvClosed(s)
       \/ PairOwnStop(s)
       \/ PairOwnStopSend(s)
       \/ PairOwnStopReceive(s)
       \/ PairStop(s)
       \/ PairStopSend(s)
       \/ PairStopReceive(s)
       \/ Return(s)
       \/ EngRead(s)
       \/ EngFinish(s)
       \/ EngDrop(s)
       \/ PairGoal(s)
  \/ \E o \in Others :
       \/ PairQuery(o, "query")
       \/ Send(o)
       \/ OtherReceive(o)
       \/ Return(o)

SpecPair == InitPair /\ [][NextPair]_vars

\* SpecLock: the two sessions, each used by one thread only; the first runs
\* async queries, the second queries that may take and release the mutex
NextLock ==
  \/ \E s \in Sessions :
       \/ PairQuery(s, "query_async")
       \/ PairSend(s)
       \/ PairReceive(s)
       \/ Return(s)
       \/ EngRead(s)
       \/ PairGoal(s)
  \/ \E o \in Others :
       \/ PairQuery(o, "query")
       \/ Send(o)
       \/ OtherReceive(o)
       \/ Return(o)

\* the engine runs every goal thread it has, and a caller inside a blocking
\* send or receive of the other session gets through it
SpecLock ==
  /\ InitPair /\ [][NextLock]_vars
  /\ \A s \in Sessions : WF_vars(PairGoal(s))
  /\ \A o \in Others : WF_vars(Send(o)) /\ WF_vars(OtherReceive(o))

(***************************************************************************)
(* Claims about the handle and its sessions, checked under Spec.           *)
(***************************************************************************)
\* the slot is between operations: its caller holds the outcome of the last
\* one, or has taken it
Between(s) == pc[s] \in {"idle", "done"}

\* the step sends the given frame on the slot's connection
Sends(s, frame) ==
  /\ Len(sent'[s]) = Len(sent[s]) + 1
  /\ sent'[s][Len(sent'[s])] = frame

\* C1: on every connection a session opens, the first frame sent is the
\* credential and it is sent exactly once, whether start() or query() /
\* query_async() opened the connection.
C1_CredentialFirst ==
  \A s \in Slots :
    /\ creds[s] <= 1
    /\ first[s] # "none" => (first[s] = "credential" /\ creds[s] = 1)

\* a query() on a session never started has sent the credential, then run
C1_Witness ==
  \E s \in Sessions :
    /\ op[s] = "query" /\ pc[s] = "done"
    /\ sent[s] = <<"credential", "run">>
    /\ first[s] = "credential" /\ creds[s] = 1

\* C2 as stated: frames sent minus replies consumed is 0 between operations
\* and never exceeds 1, after any sequence of operations.
C2_Original ==
  \A s \in Slots :
    /\ pend[s] <= 1
    /\ Between(s) => pend[s] = 0

\* C2 amended: the difference never exceeds 1, and it is 0 between operations
\* on a connection that is open and has met no transport error.
C2_OneForOne ==
  \A s \in Slots :
    /\ pend[s] \in {0, 1}
    /\ (Between(s) /\ cstate[s] = "open") => pend[s] = 0

\* a query() that started its session has sent two frames and consumed the
\* reply to each
C2_Witness ==
  \E s \in Sessions :
    /\ op[s] = "query" /\ pc[s] = "done" /\ result[s] = "True"
    /\ Len(sent[s]) = 2 /\ pend[s] = 0 /\ cstate[s] = "open"

\* C3: an operation that decodes exception(connection_failed) has set the
\* handle's failure flag and raises the connection-failure error.
C3_ConnectionFailedSetsFlag ==
  \A s \in Slots :
    reply[s] = "connection_failed" =>
      /\ connection_failed
      /\ result[s] = "PrologConnectionFailedError"

\* a query() got exception(connection_failed)
C3_Witness ==
  \E s \in Sessions :
    /\ op[s] = "query" /\ pc[s] = "done"
    /\ reply[s] = "connection_failed"

\* C4: the failure flag starts false and, once true, stays true through every
\* later operation of the handle and its sessions.
C4_FlagMonotonic ==
  /\ connection_failed = FALSE
  /\ [][connection_failed => connection_failed']_vars

\* the flag is set, the handle owns its second process and a session has
\* been started on it
C4_Witness ==
  /\ connection_failed
  /\ process = 2 /\ live = {2}
  /\ \E s \in Sessions : op[s] = "start" /\ pc[s] = "done" /\ cstate[s] = "open"

\* C5 as stated: in every interleaving, once the failure flag is set no
\* Session.stop() sends close and no PrologServer.stop() sends quit.
C5_Original ==
  [][connection_failed =>
       \A s \in Slots :
         /\ ~Sends(s, "close")
         /\ ~(op[s] = "server_stop" /\ Sends(s, "quit"))]_vars

\* C5 amended: a stop() that reads the failure flag as set sends no close and
\* only closes its transport, and a PrologServer.stop() that reads it as set
\* sends no quit and only kills its process; a close or quit is sent only by a
\* stop that read the flag as unset.
C5_StopReadsFlag ==
  [][\A s \in Slots :
       /\ Sends(s, "close") => ~flagRead[s]
       /\ (op[s] = "server_stop" /\ Sends(s, "quit")) => ~killRead
       /\ (flagRead'[s] /\ ~flagRead[s]) =>
            (socket'[s] = "None" /\ cstate'[s] = "closed" /\ sent'[s] = sent[s])
       /\ (killRead' /\ ~killRead) =>
            (process' = 0 /\ sent' = sent /\ cstate' = cstate)]_vars

\* with the flag set, a session's stop() has closed its transport without a
\* handshake
C5_Witness ==
  \E s \in Sessions :
    /\ op[s] = "stop" /\ pc[s] = "done"
    /\ connection_failed /\ flagRead[s]
    /\ sent[s] = <<>> /\ cstate[s] = "closed"

\* C6 as stated: stop() always ends with the transport closed and the session
\* unconnected, whatever the outcome of the close handshake.
C6_Claim ==
  \A s \in Sessions :
    (op[s] = "stop" /\ pc[s] = "done") =>
      (socket[s] = "None" /\ cstate[s] \in {"none", "closed"})

\* C7 as stated: once stop() has closed a session, no later operation on it
\* opens a transport connection.
C7_Claim ==
  [][\A s \in Sessions :
       cstate[s] = "closed" => (cstate'[s] = "closed" /\ socket'[s] = "None")]_vars

\* C8 as stated: once recorded, a session's two thread ids never change.
C8_Claim ==
  [][\A s \in Sessions :
       communication_thread_id[s] # "None" =>
         /\ communication_thread_id'[s] = communication_thread_id[s]
         /\ goal_thread_id'[s] = goal_thread_id[s]]_vars

\* C10 as stated: an operation that meets a transport error raises the
\* connection-failure error and sets the failure flag.
C10_Claim ==
  \A s \in Sessions :
    (pc[s] = "done" /\ cstate[s] = "broken") =>
      (result[s] = "PrologConnectionFailedError" /\ connection_failed)

\* C11 as stated: when the engine's reply to the credential is not a true
\* term, start() raises the launch error.
C11_Claim ==
  \A s \in Sessions :
    (op[s] = "start" /\ pc[s] = "done" /\ reply[s] = ReplyName(Rejected)) =>
      result[s] = "PrologLaunchError"

\* the values an operation may return
DefinedValues == {"True", "False", "list", "None"}

\* C37 as stated: between operations a session whose _socket is set has an
\* open connection on which the credential went first, and both thread ids
\* are recorded; so a start() that raised has left _socket None.
C37_Claim ==
  \A s \in Sessions :
    (Between(s) /\ AlreadyStarted(socket[s])) =>
      /\ cstate[s] = "open"
      /\ first[s] = StartFrame
      /\ communication_thread_id[s] # "None"
      /\ goal_thread_id[s] # "None"

\* C12: start() on a session whose socket is set is a no-op: it returns None,
\* opens no connection, sends no frame, and leaves the thread ids and the
\* handle unchanged.
C12_StartNoOp ==
  [][\A s \in Sessions :
       (pc[s] = "idle" /\ op'[s] = "start" /\ socket[s] # "None") =>
         /\ pc'[s] = "done" /\ result'[s] = "None"
         /\ socket'[s] = socket[s] /\ cstate'[s] = cstate[s]
         /\ sent'[s] = sent[s] /\ creds'[s] = creds[s] /\ pend'[s] = pend[s]
         /\ communication_thread_id'[s] = communication_thread_id[s]
         /\ goal_thread_id'[s] = goal_thread_id[s]
         /\ nconn' = nconn
         /\ UNCHANGED handleVars]_vars

\* a second start() has returned on a session that is connected: nothing was
\* sent by it and the one credential of the connection is still the only one
C12_Witness ==
  \E s \in Sessions :
    /\ op[s] = "start" /\ pc[s] = "done" /\ result[s] = "None"
    /\ sent[s] = <<>> /\ cstate[s] = "open"
    /\ first[s] = "credential" /\ creds[s] = 1
    /\ communication_thread_id[s] # "None"

\* C13: query() and query_async() on a session with no socket begin as start()
\* does (the handle is started when it owns no process, then the socket is
\* made), and a call that starts the session sends its run / run_async
\* request only after the credential was sent once and acknowledged with a
\* true reply on the open connection, with the thread ids recorded.
C13_QueryStartsFirst ==
  [][\A s \in Sessions :
       /\ (pc[s] = "idle" /\ op'[s] \in {"query", "query_async"} /\ socket[s] = "None") =>
            \/ /\ pc'[s] = "connect" /\ socket'[s] = "socket"
               /\ (launch_server /\ process = 0) => process' # 0
            \/ /\ pc'[s] = "done" /\ result'[s] \in {"AssertionError", "OSError"}
               /\ socket'[s] = "None"
       /\ (op[s] \in {"query", "query_async"} /\ pc[s] = "connect") => sent[s] = <<>>
       /\ (op[s] \in {"query", "query_async"} /\ sent[s] # <<>>
             /\ Sends(s, FrameOf(op[s]))) =>
            /\ sent[s] = <<"credential">>
            /\ cstate[s] = "open"
            /\ first[s] = "credential" /\ creds[s] = 1 /\ pend[s] = 0
            /\ reply[s] = "true"
            /\ communication_thread_id[s] # "None" /\ goal_thread_id[s] # "None"
            /\ launch_server => nproc >= 1]_vars

\* a query_async() on a session never started launched the engine, started
\* the session and was acknowledged
C13_Witness ==
  \E s \in Sessions :
    /\ op[s] = "query_async" /\ pc[s] = "done" /\ result[s] = "None"
    /\ sent[s] = <<"credential", "run_async">>
    /\ launch_server /\ nproc = 1 /\ nconn = 1

\* the errors of the taxonomy
Taxonomy ==
  {"PrologError", "PrologLaunchError", "PrologConnectionFailedError",
   "PrologQueryTimeoutError", "PrologNoQueryError", "PrologQueryCancelledError",
   "PrologResultNotAvailableError"}

\* C27 as stated: from every state of the session, an operation that meets no
\* transport error returns one of the defined values or raises an error of
\* the taxonomy.
C27_Claim ==
  \A s \in Sessions :
    (pc[s] = "done" /\ result[s] # "OSError") =>
      result[s] \in DefinedValues \cup Taxonomy

\* C38 as stated: every process the handle has spawned and not yet reaped
\* is the one _process refers to, so the handle never owns two.
C38_Claim ==
  live \subseteq {process}

\* what holds in place of C38: a session's start() or query() spawns a
\* process only when the handle refers to none
C38_SessionsSpawnOnce ==
  [][\A s \in Sessions :
       (pc'[s] # pc[s] /\ nproc' # nproc) => process = 0]_vars

\* C29 as stated: when PrologServer.stop() ends on a handle that owns a process
\* and was given a Unix domain socket, no removable socket file is left.
C29_Claim ==
  [][(op'[Temp] = "server_stop" /\ pc[Temp] # "done" /\ pc'[Temp] = "done"
      /\ unix_domain_socket /\ process # 0) =>
       sockFile' # "present"]_vars

\* the step on which PrologServer.stop() returns or raises
StopEnds == op'[Temp] = "server_stop" /\ pc[Temp] # "done" /\ pc'[Temp] = "done"

\* C39 as stated: when PrologServer.stop() returns or raises, the process the
\* handle owned has been reaped and _process is None.
C39_Claim ==
  [][StopEnds => (process' = 0 /\ process \notin live')]_vars

\* what holds in place of C39: a PrologServer.stop() that returns has reaped
\* the process and cleared _process
C39_WhenStopReturns ==
  [][(StopEnds /\ result'[Temp] = "None") =>
       (process' = 0 /\ process \notin live')]_vars

\* a step of halt_server() on session s
HaltStep(s) == op[s] = "halt_server" /\ pc'[s] # pc[s]

\* C33 as stated: halt_server() changes the failure flag only in the step
\* that receives the reply to quit as a non-exception reply, and it sets it
\* there; when the send fails or the reply raises an error, the flag is as it
\* was.
C33_Original ==
  [][\A s \in Sessions :
       HaltStep(s) =>
         /\ connection_failed' # connection_failed =>
              (pc[s] = "recv" /\ reply'[s] = "true" /\ result'[s] = "None")
         /\ (pc[s] = "recv" /\ pc'[s] = "done" /\ result'[s] = "None") =>
              connection_failed']_vars

\* C33 amended: halt_server() changes the failure flag only in the step that
\* receives the reply to quit, and only when that reply is a non-exception
\* reply or exception(connection_failed), which the decoder raises as a
\* connection failure after setting the flag; it sets the flag whenever it
\* returns; when the send fails or the reply raises any other error, the flag
\* is as it was.
C33_FlagAfterReply ==
  [][\A s \in Sessions :
       HaltStep(s) =>
         /\ connection_failed' # connection_failed =>
              /\ pc[s] = "recv" /\ sent[s][Len(sent[s])] = "quit"
              /\ \/ reply'[s] = "true" /\ result'[s] = "None"
                 \/ reply'[s] = "connection_failed"
                      /\ result'[s] = "PrologConnectionFailedError"
         /\ (pc[s] = "recv" /\ pc'[s] = "done" /\ result'[s] = "None") =>
              connection_failed'
         /\ (pc'[s] = "done" /\ result'[s] \notin {"None", "PrologConnectionFailedError"}) =>
              connection_failed' = connection_failed]_vars

\* halt_server() on a started session whose handle had not failed returned,
\* and the flag is set
C33_Witness ==
  \E s \in Sessions :
    /\ op[s] = "halt_server" /\ pc[s] = "done" /\ result[s] = "None"
    /\ reply[s] = "true" /\ sent[s] = <<"quit">>
    /\ connection_failed

\* the step in which PrologServer.stop() is entered
StopCalled == op[Temp] = "none" /\ op'[Temp] = "server_stop"

\* the process is killed and reaped in this step, and no connection is touched
Killed ==
  /\ process' = 0 /\ process \notin live' /\ ~engineUp'
  /\ pc'[Temp] = "done" /\ result'[Temp] = "None"
  /\ UNCHANGED <<nconn, socket, cstate, wireVars>>

C40_FlagOutlivesStop ==
  [][/\ (pc[Temp] = "wait" /\ pc'[Temp] = "done") =>
          (connection_failed /\ connection_failed' /\ process' = 0
             /\ result'[Temp] = "None" /\ ~killRead')
     /\ connection_failed => connection_failed'
     /\ nproc' # nproc => connection_failed' = connection_failed
     /\ \A s \in Sessions :
          (connection_failed /\ pc[s] = "idle" /\ op'[s] = "stop"
             /\ AlreadyStarted(socket[s])) =>
            /\ pc'[s] = "done" /\ result'[s] = "None" /\ flagRead'[s]
            /\ socket'[s] = "None" /\ cstate'[s] = "closed"
            /\ sent'[s] = sent[s] /\ pend'[s] = pend[s]
     /\ (connection_failed /\ StopCalled /\ process # 0) => Killed]_vars

\* PrologServer.stop() has returned along the graceful path (quit was
\* acknowledged, nothing had failed); since then a session has launched the
\* handle's second process and connected, and its stop() has skipped the
\* close handshake
C40_Witness ==
  /\ op[Temp] = "server_stop" /\ pc[Temp] = "done" /\ result[Temp] = "None"
  /\ ~killRead /\ reply[Temp] = "true" /\ sent[Temp] = <<"credential", "quit">>
  /\ connection_failed /\ nproc = 2 /\ process = 2 /\ live = {2}
  /\ \E s \in Sessions :
       /\ op[s] = "stop" /\ pc[s] = "done" /\ result[s] = "None"
       /\ flagRead[s] /\ sent[s] = <<>>
       /\ first[s] = StartFrame /\ creds[s] = 1 /\ pend[s] = 0
       /\ socket[s] = "None" /\ cstate[s] = "closed"

(***************************************************************************)
(* Claims about async queries, checked under SpecAsync.                    *)
(***************************************************************************)
\* what query_async_result() gave since the last query_async(), the
\* result-not-available errors left out
Drain(s) == SelectSeq(drained[s], LAMBDA x : x.what # "PrologResultNotAvailableError")

\* the entry is the k-th answer alone
IsAnswer(x, k) ==
  /\ x.what = "list" /\ Len(x.value) = 1
  /\ ~x.value[1].isTrue /\ x.value[1].dict["X"] = Atom(AnswerNames[k])

\* the entries are the results of a query that ended by itself, in order
IsResults(d, findAll, total) ==
  IF total = 0 THEN Len(d) = 1 /\ d[1].what = "False"
  ELSE IF findAll
  THEN /\ Len(d) = 1 /\ d[1].what = "list" /\ Len(d[1].value) = total
       /\ \A k \in 1..total : d[1].value[k].dict["X"] = Atom(AnswerNames[k])
  ELSE Len(d) = total /\ \A k \in 1..total : IsAnswer(d[k], k)

\* C18: query_async_result() returns the end marker once, right after the
\* results of the query have all been retrieved, and every call after it
\* raises the no-query error until a new query is accepted; with no query
\* ever submitted every call raises the no-query error.
C18_EndMarkerOnce ==
  \A s \in Sessions :
    cstate[s] = "open" =>
      LET d == Drain(s) IN
      /\ \A i \in 1..Len(d) :
           d[i].what = "None" =>
             /\ IsResults(SubSeq(d, 1, i - 1), engine[s].findAll, engine[s].total)
             /\ \A j \in (i + 1)..Len(d) : d[j].what = "PrologNoQueryError"
      /\ (/\ ~engine[s].running /\ engine[s].ended = "normal"
          /\ engine[s].queue = <<>>) =>
           \E i \in 1..Len(d) : d[i].what = "None"
      /\ engine[s] = NoQuery =>
           \A i \in 1..Len(d) : d[i].what = "PrologNoQueryError"

\* every answer was retrieved one by one, then the end marker, then the
\* no-query error
C18_Witness ==
  \E s \in Sessions :
    /\ cstate[s] = "open" /\ ~engine[s].findAll /\ engine[s].total = MaxGoalAnswers
    /\ Len(drained[s]) = MaxGoalAnswers + 2
    /\ \A i \in 1..MaxGoalAnswers : IsAnswer(drained[s][i], i)
    /\ drained[s][MaxGoalAnswers + 1].what = "None"
    /\ drained[s][MaxGoalAnswers + 2].what = "PrologNoQueryError"

\* C19: cancel_query_async() raises the no-query error exactly when no query
\* is running and no result of the last query is left unretrieved; the
\* session then stays connected and the failure flag is unchanged.
C19_CancelNoQuery ==
  [][\A s \in Sessions :
       (/\ op[s] = "cancel_query_async" /\ pc[s] = "recv" /\ pc'[s] = "done"
        /\ cstate'[s] = "open") =>
         /\ (~engine[s].running /\ ~Unretrieved(engine[s])) <=>
              result'[s] = "PrologNoQueryError"
         /\ result'[s] = "PrologNoQueryError" =>
              /\ socket'[s] = "socket" /\ cstate'[s] = "open"
              /\ connection_failed' = connection_failed
              /\ engine'[s] = engine[s]]_vars

\* the no-query error was raised by a cancel after a finished query's results
\* had been retrieved
C19_Witness ==
  \E s \in Sessions :
    /\ op[s] = "cancel_query_async" /\ pc[s] = "done"
    /\ result[s] = "PrologNoQueryError"
    /\ engine[s].ended = "normal" /\ engine[s].total = 2 /\ ~engine[s].findAll
    /\ Len(Drain(s)) = 2
    /\ cstate[s] = "open" /\ ~connection_failed

\* C20: when the timeout of a find_all false query expires after k answers,
\* the calls of query_async_result() return the k answers in order, the next
\* raises the timeout error, and only then the no-query error follows: the end
\* marker is never returned, whether or not cancel_query_async() was called.
C20_TimeoutAfterAnswers ==
  \A s \in Sessions :
    (cstate[s] = "open" /\ ~engine[s].findAll /\ engine[s].ended = "timeout") =>
      LET d == Drain(s)
          k == engine[s].total
      IN \A i \in 1..Len(d) :
           /\ i <= k => IsAnswer(d[i], i)
           /\ i = k + 1 => d[i].what = "PrologQueryTimeoutError"
           /\ i > k + 1 => d[i].what = "PrologNoQueryError"

\* two answers, then the timeout error, after a cancel that found the query
\* already timed out
C20_Witness ==
  \E s \in Sessions :
    /\ cstate[s] = "open" /\ ~engine[s].findAll /\ engine[s].ended = "timeout"
    /\ engine[s].total = 2 /\ ~engine[s].cancelled
    /\ Len(drained[s]) = 3
    /\ IsAnswer(drained[s][1], 1) /\ IsAnswer(drained[s][2], 2)
    /\ drained[s][3].what = "PrologQueryTimeoutError"

\* the calls among the first i recorded that the engine answered with
\* something else than result_not_available
Got(d, i) ==
  Len(SelectSeq(SubSeq(d, 1, i), LAMBDA x : x.reply # "result_not_available"))

\* C21: a poll that the engine answers with result_not_available raises the
\* result-not-available error and ends nothing: the other calls of
\* query_async_result() on a find_all false query that ends by itself return
\* its answers in order, each once, then the end marker, however many polls
\* found no result in between.
C21_NotAvailableKeepsQuery ==
  \A s \in Sessions :
    (/\ cstate[s] = "open" /\ engine[s] # NoQuery /\ ~engine[s].findAll
     /\ engine[s].ending = "normal" /\ engine[s].ended \in {"none", "normal"}) =>
      LET d == drained[s]
          total == engine[s].total
          results == IF total = 0 THEN 1 ELSE total
      IN /\ \A i \in 1..Len(d) :
              IF d[i].reply = "result_not_available"
              THEN /\ d[i].what = "PrologResultNotAvailableError"
                   /\ Got(d, i) <= total
              ELSE LET n == Got(d, i) IN
                   /\ (n <= results /\ total = 0) => d[i].what = "False"
                   /\ (n <= results /\ total > 0) => IsAnswer(d[i], n)
                   /\ n = results + 1 => d[i].what = "None"
                   /\ n > results + 1 => d[i].what = "PrologNoQueryError"
         /\ (~engine[s].running /\ engine[s].queue = <<>>) => Got(d, Len(d)) > results

\* two polls found no result, one before each answer, and the second answer
\* was still delivered after them
C21_Witness ==
  \E s \in Sessions :
    /\ cstate[s] = "open" /\ ~engine[s].findAll /\ engine[s].total = 2
    /\ Len(drained[s]) = 4
    /\ drained[s][1].what = "PrologResultNotAvailableError"
    /\ IsAnswer(drained[s][2], 1)
    /\ drained[s][3].what = "PrologResultNotAvailableError"
    /\ IsAnswer(drained[s][4], 2)

\* every answer of the list is an answer of the query with tag t
OfQuery(list, t) ==
  \A k \in 1..Len(list) :
    ~list[k].isTrue /\ list[k].dict["Y"] = Atom(QueryNames[t + 1])

\* C22: query() and query_async() on a connected session go straight to their
\* send, whatever the earlier async query left; the request is accepted (the
\* engine takes up a new query and query_async() returns None, query() its own
\* result), and every answer returned from then on, by query_async_result()
\* or by the query() itself, is an answer of the newest query.
C22_NewestQuery ==
  [][\A s \in Sessions :
       /\ (pc[s] = "idle" /\ op'[s] \in {"query", "query_async"} /\ socket[s] # "None") =>
            (pc'[s] = "send" /\ engine'[s] = engine[s])
       /\ (/\ op[s] \in {"query", "query_async"} /\ pc[s] = "recv" /\ pc'[s] = "done"
           /\ cstate'[s] = "open" /\ result'[s] # "PrologError") =>
            /\ engine'[s].tag # engine[s].tag
            /\ engine'[s].queue = <<>>
            /\ op[s] = "query_async" => (result'[s] = "None" /\ engine'[s].running)
            /\ op[s] = "query" =>
                 /\ result'[s] \in {"list", "False", "PrologQueryTimeoutError"}
                 /\ result'[s] = "list" =>
                      (returned'[s] # <<>> /\ OfQuery(returned'[s], engine'[s].tag))
       /\ cstate'[s] = "open" =>
            \A i \in 1..Len(drained'[s]) :
              drained'[s][i].what = "list" =>
                OfQuery(drained'[s][i].value, engine'[s].tag)]_vars

\* a query_async() was accepted while results of the earlier query were
\* unretrieved, and the drain that followed gave every answer of the new
\* query and the end marker
C22_Witness ==
  \E s \in Sessions :
    /\ cstate[s] = "open" /\ engine[s].replaced
    /\ ~engine[s].findAll /\ engine[s].total = MaxGoalAnswers
    /\ Len(drained[s]) = MaxGoalAnswers + 1
    /\ \A i \in 1..MaxGoalAnswers :
         IsAnswer(drained[s][i], i) /\ OfQuery(drained[s][i].value, engine[s].tag)
    /\ drained[s][MaxGoalAnswers + 1].what = "None"

NonFatalErrors ==
  {"PrologQueryTimeoutError", "PrologQueryCancelledError", "PrologNoQueryError",
   "PrologResultNotAvailableError", "PrologError"}

\* C23: an operation that raises the timeout, cancellation, no-query,
\* result-not-available or generic error leaves the session as a connected
\* session is before any call: the socket set and open, every frame sent
\* answered, the thread ids and the failure flag unchanged; and on such a
\* session query() and query_async() go straight to their send.
C23_NonFatal ==
  [][\A s \in Sessions :
       /\ (pc[s] = "recv" /\ pc'[s] = "done" /\ result'[s] \in NonFatalErrors) =>
            /\ socket'[s] = "socket" /\ cstate'[s] = "open" /\ cstate[s] = "open"
            /\ pend'[s] = 0
            /\ communication_thread_id'[s] = communication_thread_id[s]
            /\ goal_thread_id'[s] = goal_thread_id[s]
            /\ connection_failed' = connection_failed
       /\ (pc[s] = "done" /\ result[s] \in NonFatalErrors /\ pc'[s] = "idle") =>
            /\ socket'[s] = "socket" /\ cstate'[s] = "open" /\ pend'[s] = 0
            /\ connection_failed' = connection_failed
       /\ (/\ pc[s] = "idle" /\ op'[s] \in {"query", "query_async"}
           /\ cstate[s] = "open" /\ pend[s] = 0) =>
            (pc'[s] = "send" /\ sent'[s] = <<>>)]_vars

\* after an answer the query was cancelled: the next query_async_result()
\* raised the cancellation error, and the call after it was sent and answered
\* on the same connection
C23_Witness ==
  \E s \in Sessions :
    /\ op[s] = "query_async_result" /\ pc[s] = "done"
    /\ result[s] = "PrologNoQueryError"
    /\ Len(drained[s]) = 3
    /\ IsAnswer(drained[s][1], 1)
    /\ drained[s][2].what = "PrologQueryCancelledError"
    /\ drained[s][3].what = "PrologNoQueryError"
    /\ cstate[s] = "open" /\ ~connection_failed
    /\ communication_thread_id[s] = CommName(1) /\ goal_thread_id[s] = GoalName(1)

(***************************************************************************)
(* Claims about sessions used concurrently, checked under SpecPair.        *)
(***************************************************************************)
\* a step of stop() on the session, by its own thread or by the second one,
\* or the engine's step that ends the session's connection
StopStep(s) ==
  \/ stopper' # stopper
  \/ op'[s] = "stop" /\ pc'[s] # pc[s]
  \/ eof' # eof

\* what the other session has of its own
OtherState(o) ==
  <<socket[o], cstate[o], communication_thread_id[o], goal_thread_id[o],
    pc[o], op[o], result[o], pend[o], engine[o]>>

NormalResults == {"list", "False", "PrologQueryTimeoutError"}

QueryWaitsForever(s) ==
  /\ op[s] = "query" /\ pc[s] = "recv" /\ socket[s] # "None"
  /\ wire = <<>> /\ eof /\ stopper.pc = "done"
StopWaitsForever == stopper.pc = "stop_recv" /\ wire = <<>> /\ eof

\* C25 as stated: stop() called from a second thread while query() awaits its
\* reply ends by returning, with the transport closed, and neither call is
\* left waiting forever.
C25_Claim ==
  \A s \in Sessions :
    /\ stopper.pc = "done" => (stopper.result = "None" /\ socket[s] = "None")
    /\ ~QueryWaitsForever(s)
    /\ ~StopWaitsForever

(***************************************************************************)
(* Claims about json_to_prolog, checked under SpecQuote.                   *)
(***************************************************************************)
\* requiresQuoting as the specification states it
RequiresQuoting(text) ==
  \/ text = <<>>
  \/ ~isalpha(text[1])
  \/ \E i \in 1..Len(text) : text[i] \notin {"a", "A", "1", "_"}

\* the terms in which one identifier stands: alone, as the functor of a
\* compound with the argument a, as the one item of a list
IdentifierTerms ==
  {JStr(text) : text \in Texts}
    \cup {JFunctor(text, <<JStr(<<"a">>)>>) : text \in Texts}
    \cup {JList(<<JStr(text)>>) : text \in Texts}

Identifier(term) == IF term.kind = "list" THEN term.args[1].name ELSE term.name

\* the identifier stands between quotes in the text returned
IsQuoted(term, out) ==
  LET at == IF term.kind = "list" THEN 2 ELSE 1
      name == Identifier(term)
  IN /\ Len(out.text) >= at + Len(name) + 1
     /\ out.text[at] = "'"
     /\ SubSeq(out.text, at + 1, at + Len(name)) = name
     /\ out.text[at + Len(name) + 1] = "'"

\* C30 as stated: json_to_prolog returns the identifier between quotes iff
\* requiresQuoting holds for its text, for an atom and for a functor name.
C30_Claim ==
  (termOut # NotConverted /\ termIn \in IdentifierTerms) =>
    /\ ~termOut.raise
    /\ IsQuoted(termIn, termOut) <=> RequiresQuoting(Identifier(termIn))

\* a term without variables: no string in it is a variable by is_prolog_variable
RECURSIVE VariableFree(_)
VariableFree(term) ==
  /\ term.kind = "str" => (term.name = <<>> \/ ~is_variable_text(term.name))
  /\ \A i \in 1..Len(term.args) : VariableFree(term.args[i])

\* C31 as stated: json_to_prolog returns a text for every term without
\* variables, and that text read as Prolog source is the same term again.
C31_Claim ==
  VariableFree(termIn) =>
    /\ termOut # NotConverted => ~termOut.raise
    /\ termBack # NotRead => termBack = termIn

\* a term whose names are not empty, hold no quote and do not begin as a
\* variable does
RECURSIVE Plain(_)
Plain(term) ==
  /\ term.kind \in {"str", "functor"} =>
       /\ term.name # <<>> /\ ~is_variable_text(term.name)
       /\ \A i \in 1..Len(term.name) : term.name[i] # "'"
  /\ \A i \in 1..Len(term.args) : Plain(term.args[i])

\* what holds in place of C31: the round trip of the terms that are Plain
RoundTripOfPlainTerms ==
  Plain(termIn) =>
    /\ termOut # NotConverted => ~termOut.raise
    /\ termBack # NotRead => termBack = termIn

(***************************************************************************)
(* Claims about _send, checked under SpecSend.                             *)
(***************************************************************************)
\* where the header of what was sent ends: its first newline
HeaderEnd == CHOOSE k \in 1..Len(sentBytes) :
               sentBytes[k] = Newline /\ \A j \in 1..(k - 1) : sentBytes[j] # Newline

\* C35: what _send writes is a header of decimal digits that give the number
\* of bytes of the body, ".", newline, and then the body; the body is the
\* UTF-8 encoding of the part of the string that is left when the
\* whitespace around it and then every trailing "." and newline are taken
\* away, followed by one "." and newline; normalising a normalised string
\* again changes nothing.
C35_SendFrame ==
  sentBytes # <<>> =>
    LET v == sendValue
        digits == SubSeq(sentBytes, 1, HeaderEnd - 2)
        body == Drop(sentBytes, HeaderEnd)
    IN /\ HeaderEnd >= 3 /\ sentBytes[HeaderEnd - 1] = Dot
       /\ \A i \in 1..Len(digits) : IsDigit(digits[i])
       /\ digits[1] # Digit0
       /\ ParseInt(digits) = Len(body)
       /\ \E i, j, k \in 0..Len(v) :
            /\ i <= j /\ j <= k
            /\ \A m \in 1..i : v[m] \in Whitespace
            /\ \A m \in (k + 1)..Len(v) : v[m] \in Whitespace
            /\ i = k \/ (v[i + 1] \notin Whitespace /\ v[k] \notin Whitespace)
            /\ \A m \in (j + 1)..k : v[m] \in {Dot, Newline}
            /\ j = i \/ v[j] \notin {Dot, Newline}
            /\ body = encode(SubSeq(v, i + 1, j)) \o <<Dot, Newline>>
       /\ Normalised(Normalised(v)) = Normalised(v)

\* " \u00e9.\n" was sent as "4.\n" and the four bytes of "\u00e9.\n"
C35_Witness ==
  /\ sendValue = <<32, 233, Dot, Newline>>
  /\ sentBytes = <<Digit0 + 4, Dot, Newline, 195, 169, Dot, Newline>>

(***************************************************************************)
(* Claims about _receive, checked under SpecRecv.                          *)
(***************************************************************************)
\* C9 as stated: when the peer closes the connection before a complete frame
\* has arrived, _receive terminates with a transport error; once a read has
\* found the connection closed, it is not still in its loop.
C9_Claim ==
  eofReads > 0 => rpc = "OSError"

\* C36 as stated, under SpecStream: when _receive returns, it returns the
\* body of the frame it was called for, and what it has not consumed is
\* everything that follows that frame: the whole second frame after the
\* first call, nothing after the second.
C36_Claim ==
  rpc = "returned" =>
    /\ bytesReceived = framed
    /\ stream = (IF framed = SecondBody THEN <<>> ELSE SecondFrame)

\* what holds in place of C36: _receive returns the body it was called for
\* whenever no read has returned bytes of the next frame with it
C36_WhenReadsEndAtFrame ==
  (rpc = "returned" /\ Len(bytesReceived) = amount_expected) =>
    /\ bytesReceived = framed
    /\ stream = (IF framed = SecondBody THEN <<>> ELSE SecondFrame)

\* C14: for every body, every number of keepalive bytes before the header
\* and every split of the bytes into reads, _receive returns exactly the body
\* that was framed: once all bytes of the message have been read the loop
\* ends, and what is returned is the body.
C14_ReceiveReturnsBody ==
  /\ (framed # <<>> /\ unwritten = 0 /\ stream = <<>> /\ rpc \in {"loop", "returned"}) =>
       (~MoreExpected /\ bytesReceived = framed /\ amount_expected = Len(framed))
  /\ rpc = "returned" =>
       (framed # <<>> /\ unwritten = 0 /\ stream = <<>> /\ bytesReceived = framed)

\* the longest body, after the keepalive bytes, was returned from reads of
\* one byte each
C14_Witness ==
  /\ rpc = "returned"
  /\ framed = Body(MaxBody) /\ bytesReceived = framed
  /\ reads = Len(Frame(MaxDots, MaxBody))

(***************************************************************************)
(* Claims about _return_prolog_response, checked under SpecDecode.         *)
(***************************************************************************)
\* the binding lists of a true(L) reply
AnswersOf(jsonResult) == jsonResult.args[1].args

TrueMarker == [isTrue |-> TRUE, dict |-> <<>>]

\* C15: a reply true(L) whose binding lists are all empty decodes to True when
\* L has one element and to a list of Len(L) True markers when it has more;
\* a reply false decodes to False.
C15_TrueFalse ==
  decodeOut # Pending =>
    /\ prolog_name(decodeIn) = "false" => decodeOut = Returned("False")
    /\ (/\ prolog_name(decodeIn) = "true"
        /\ \A i \in 1..Len(AnswersOf(decodeIn)) : AnswersOf(decodeIn)[i].args = <<>>) =>
         /\ Len(AnswersOf(decodeIn)) = 1 => decodeOut = Returned("True")
         /\ Len(AnswersOf(decodeIn)) > 1 =>
              /\ ~decodeOut.raise /\ decodeOut.what = "list"
              /\ Len(decodeOut.value) = Len(AnswersOf(decodeIn))
              /\ \A i \in 1..Len(decodeOut.value) : decodeOut.value[i] = TrueMarker

\* true([[], [], []]) was decoded to three True markers
C15_Witness ==
  /\ decodeIn = TrueReply(<<List(<<>>), List(<<>>), List(<<>>)>>)
  /\ decodeOut.what = "list"
  /\ decodeOut.value = <<TrueMarker, TrueMarker, TrueMarker>>

\* C16: a reply true(L) with a non-empty binding list decodes to a list with
\* one entry per binding list, in the order of L; the entry of a non-empty
\* binding list maps each variable it binds to its term, and a single answer
\* with variables stays a list of one mapping.
C16_AnswerDicts ==
  (/\ decodeOut # Pending
   /\ prolog_name(decodeIn) = "true"
   /\ \E i \in 1..Len(AnswersOf(decodeIn)) : AnswersOf(decodeIn)[i].args # <<>>) =>
    /\ ~decodeOut.raise /\ decodeOut.what = "list"
    /\ Len(decodeOut.value) = Len(AnswersOf(decodeIn))
    /\ \A i \in 1..Len(decodeOut.value) :
         LET bindings == AnswersOf(decodeIn)[i].args
             entry == decodeOut.value[i]
         IN IF bindings = <<>>
            THEN entry = TrueMarker
            ELSE /\ ~entry.isTrue
                 /\ DOMAIN entry.dict =
                      {bindings[j].args[1].functor : j \in 1..Len(bindings)}
                 /\ \A j \in 1..Len(bindings) :
                      entry.dict[bindings[j].args[1].functor] = bindings[j].args[2]

\* three answers with variables were decoded to three mappings in their order
C16_Witness ==
  /\ decodeIn = TrueReply(<<List(<<Eq("X", Atom("b"))>>),
                            List(<<Eq("X", Atom("a"))>>),
                            List(<<Eq("X", Atom("a")), Eq("Y", Compound("f", <<Atom("b")>>))>>)>>)
  /\ decodeOut.what = "list" /\ Len(decodeOut.value) = 3
  /\ decodeOut.value[1].dict["X"] = Atom("b")
  /\ decodeOut.value[2].dict["X"] = Atom("a")
  /\ decodeOut.value[3].dict["Y"] = Compound("f", <<Atom("b")>>)

\* the outcome the taxonomy gives to an inner term of this name
KindOfName(n) ==
  CASE n = "no_more_results" -> Returned("None")
    [] n = "connection_failed" -> Raised("PrologConnectionFailedError", TRUE)
    [] n = "time_limit_exceeded" -> Raised("PrologQueryTimeoutError", FALSE)
    [] n = "no_query" -> Raised("PrologNoQueryError", FALSE)
    [] n = "cancel_goal" -> Raised("PrologQueryCancelledError", FALSE)
    [] n = "result_not_available" -> Raised("PrologResultNotAvailableError", FALSE)
    [] OTHER -> Raised("PrologError", FALSE)

\* the names a caller tests an error for
TestedNames == ExceptionNames \cup {"syntax_error", "a", "procedure", ""}

\* C32 as stated: every exception(Inner) reply but the end marker raises an
\* error of the library that holds Inner as its payload, renders it, and
\* whose name test answers true for the name of Inner and false for every
\* other name.
C32_Claim ==
  (/\ decodeOut # Pending /\ prolog_name(decodeIn) = "exception"
   /\ decodeIn.tag = "dict" /\ ~InnerIs(decodeIn, "no_more_results")) =>
    LET Inner == prolog_args(decodeIn)[1] IN
    /\ decodeOut.raise /\ decodeOut.what \in ErrorClasses
    /\ json(errorJson) = Inner
    /\ ~prolog(errorJson).raise
    /\ \A n \in TestedNames :
         LET test == is_prolog_exception(errorJson, n) IN
         /\ ~test.raise
         /\ test.value <=> (Inner.tag \in {"str", "dict"} /\ Inner.functor = n)

\* what holds in place of C32: the same for every Inner that is an atom or
\* a compound and holds no empty atom
C32_NamedInner ==
  (/\ decodeOut # Pending /\ prolog_name(decodeIn) = "exception"
   /\ decodeIn.tag = "dict" /\ ~InnerIs(decodeIn, "no_more_results")
   /\ prolog_args(decodeIn)[1].tag \in {"str", "dict"}
   /\ ~json_to_prolog(AsJson(prolog_args(decodeIn)[1])).raise) =>
    LET Inner == prolog_args(decodeIn)[1] IN
    /\ decodeOut.raise /\ decodeOut.what \in ErrorClasses
    /\ json(errorJson) = Inner
    /\ ~prolog(errorJson).raise
    /\ \A n \in TestedNames :
         LET test == is_prolog_exception(errorJson, n) IN
         ~test.raise /\ (test.value <=> Inner.functor = n)

====
